---------------------------- MODULE Spec2Model ----------------------------
(*************************************************************************)
(* A model of the HAR / console-log analyser: the HAR analyser's query   *)
(* functions, the HAR upload path (uploader validation, parser, hook),   *)
(* the console-log parser (JSON shapes, plain-text cascade, multi-line   *)
(* reassembly) and the console-log statistics.                           *)
(*                                                                       *)
(* Each subsystem has its own specification over its own variables; the  *)
(* variables of the other subsystems stay at their initial values.       *)
(*************************************************************************)
EXTENDS Integers, Sequences, FiniteSets, TLC

VARIABLES
    \* HarAnalyzer queries: the collection given, the function applied, its
    \* other arguments, what it returned
    anEntries, anPages, anOp, anArgs, anResult,
    \* HAR validation of one file: the file, the function applied, its result
    vFile, vOp, vResult,
    \* HAR upload: the upload processes in start order, the uploader
    \* component's state, the App's state, the useHarData hook's state and the
    \* HarParser instance's field
    procs, upError, isValidating, showUploader, recentFiles,
    harData, selectedEntry, isLoading, error, parserHarData,
    \* ConsoleLogParser.parsePlainText: the lines of the text, the loop index,
    \* the locals of the loop, the ids of the entries started, the position
    ptLines, ptI, ptEntries, currentEntry, stackTraceLines, started, ptPc,
    \* a log file: its content, the last operation, the ConsoleLogFile that
    \* parseFile returned and its statistics
    logContent, logOp, logFile, logStats,
    \* queries on a loaded file: which analyser's file it is, the entry objects
    \* of the file, the arrays that exist (the first is the file's entries, an
    \* array being the sequence of the places of its entries in qEntries), the
    \* last query, its arguments and what it returned
    qFile, qEntries, qArrays, qOp, qArgs, qResult,
    \* ConsoleLogParser.parsePlainTextLine on one line: the line, the position
    \* of the call, what it returned
    plLine, plOp, plResult,
    \* the hooks useHarData and useConsoleLogData: which hook it is, the loads
    \* started (in start order), the hook's state, the HarParser instance's
    \* field
    hook, hkLoads, hkData, hkSelected, hkFilters, hkLoading, hkError, hkParser

anVars == <<anEntries, anPages, anOp, anArgs, anResult>>
vVars == <<vFile, vOp, vResult>>
upVars == <<procs, upError, isValidating, showUploader, recentFiles,
           harData, selectedEntry, isLoading, error, parserHarData>>
ptVars == <<ptLines, ptI, ptEntries, currentEntry, stackTraceLines, started, ptPc>>
logVars == <<logContent, logOp, logFile, logStats>>
qVars == <<qFile, qEntries, qArrays, qOp, qArgs, qResult>>
plVars == <<plLine, plOp, plResult>>
hkVars == <<hook, hkLoads, hkData, hkSelected, hkFilters, hkLoading, hkError, hkParser>>
vars == <<anVars, vVars, upVars, ptVars, logVars, qVars, plVars, hkVars>>
\* the variables of the other subsystems
anOthers == <<vVars, upVars, ptVars, logVars, qVars, plVars, hkVars>>
vOthers == <<anVars, upVars, ptVars, logVars, qVars, plVars, hkVars>>
upOthers == <<anVars, vVars, ptVars, logVars, qVars, plVars, hkVars>>
ptOthers == <<anVars, vVars, upVars, logVars, qVars, plVars, hkVars>>
logOthers == <<anVars, vVars, upVars, ptVars, qVars, plVars, hkVars>>
qOthers == <<anVars, vVars, upVars, ptVars, logVars, plVars, hkVars>>
plOthers == <<anVars, vVars, upVars, ptVars, logVars, qVars, hkVars>>
hkOthers == <<anVars, vVars, upVars, ptVars, logVars, qVars, plVars>>

-----------------------------------------------------------------------------
(* Generic helpers *)

Range(s) == {s[n] : n \in 1..Len(s)}

\* All sequences over S of length 0..n
RECURSIVE SeqsUpTo(_, _)
SeqsUpTo(S, n) ==
    IF n = 0 THEN {<<>>}
    ELSE LET shorter == SeqsUpTo(S, n - 1)
         IN  shorter \cup {Append(s, x) : s \in {t \in shorter : Len(t) = n - 1}, x \in S}

\* An optional property is a set holding at most one value: {} when absent
Absent == {}
Val(opt) == CHOOSE v \in opt : TRUE

-----------------------------------------------------------------------------
(* JSON values, as JSON.parse returns them *)

JNull == [t |-> "null"]
Undefined == [t |-> "undefined"]
JNum(n) == [t |-> "num", n |-> n]
\* a string is its sequence of characters
JStr(s) == [t |-> "str", s |-> s]
JArr(a) == [t |-> "arr", a |-> a]
\* an object is a function from its own property names to their values
JObj(o) == [t |-> "obj", o |-> o]

\* JavaScript truthiness
Truthy(v) ==
    CASE v.t = "null" -> FALSE
      [] v.t = "undefined" -> FALSE
      [] v.t = "num" -> v.n # 0
      [] v.t = "str" -> v.s # <<>>
      [] OTHER -> TRUE

\* reading a property of null or undefined throws a TypeError
Nullish(v) == v.t \in {"null", "undefined"}
\* v.k for a v that is not nullish
Prop(v, k) == IF v.t = "obj" /\ k \in DOMAIN v.o THEN v.o[k] ELSE Undefined
IsArray(v) == v.t = "arr"

-----------------------------------------------------------------------------
(* HAR files *)

MaxHarEntries == 2

CreatorObj == JObj([name |-> JStr(<<"c">>)])
VersionStr == JStr(<<"1", ".", "2">>)
EntryKeys == {"request", "response", "startedDateTime"}
EntryField(k) ==
    CASE k = "request" -> JObj([url |-> JStr(<<"u">>)])
      [] k = "response" -> JObj([status |-> JNum(200)])
      [] k = "startedDateTime" -> JStr(<<"2", "0", "2", "4">>)
\* entries having any subset of the three fields, an entry whose
\* startedDateTime is the empty string, and a null entry
HarEntryVals ==
    {JObj([k \in P |-> EntryField(k)]) : P \in SUBSET EntryKeys}
    \cup {JObj([k \in EntryKeys |->
                  IF k = "startedDateTime" THEN JStr(<<>>) ELSE EntryField(k)])}
    \cup {JNull}
HarEntriesVals ==
    {Absent, {JStr(<<"x">>)}} \cup {{JArr(a)} : a \in SeqsUpTo(HarEntryVals, MaxHarEntries)}
\* a log object from its optional properties
MkLog(version, creator, entries) ==
    LET present == {k \in {"version", "creator", "entries"} :
                      \/ k = "version" /\ version # Absent
                      \/ k = "creator" /\ creator # Absent
                      \/ k = "entries" /\ entries # Absent}
    IN  JObj([k \in present |->
                CASE k = "version" -> Val(version)
                  [] k = "creator" -> Val(creator)
                  [] k = "entries" -> Val(entries)])
HarLogVals ==
    {JNull, JStr(<<"x">>)}
    \cup {MkLog(v, c, e) : v \in {Absent, {VersionStr}}, c \in {Absent, {CreatorObj}},
                           e \in HarEntriesVals}
HarDocs ==
    {JNull, JNum(5), JArr(<<>>), JObj([other |-> JNum(1)])}
    \cup {JObj([log |-> l]) : l \in HarLogVals}

\* A file: whether reading it succeeds, and what JSON.parse makes of its text
SyntaxError == [t |-> "SyntaxError"]
Unreadable == [readable |-> FALSE, json |-> SyntaxError]
HarFiles ==
    {Unreadable} \cup {[readable |-> TRUE, json |-> d] : d \in HarDocs \cup {SyntaxError}}

-----------------------------------------------------------------------------
(* FileUploader.validateHarFile (src/src/components/FileUploader.tsx) *)

MsgMissingLog == "Invalid HAR file: Missing \"log\" property"
MsgMissingEntries == "Invalid HAR file: Missing or invalid \"entries\" array"
MsgNoRequests ==
    "HAR file contains no network requests. Please record some network activity and try again."
MsgCorrupted ==
    "HAR file entries are corrupted or incomplete. Please re-record the HAR file."
MsgInvalidJson == "Invalid JSON format. Please ensure the file is a valid HAR file."
MsgReadFailed == "Failed to read file. Please try again."

Invalid(msg) == [isValid |-> FALSE, error |-> {msg}, warned |-> FALSE]
Valid(warned) == [isValid |-> TRUE, error |-> Absent, warned |-> warned]

\* entries.some(entry => entry.request && entry.response && entry.startedDateTime):
\* "true", "false", or "TypeError" when a null entry is reached
RECURSIVE someValidEntry(_)
someValidEntry(entries) ==
    IF entries = <<>> THEN "false"
    ELSE LET entry == Head(entries)
         IN  IF Nullish(entry) THEN "TypeError"
             ELSE IF /\ Truthy(Prop(entry, "request"))
                     /\ Truthy(Prop(entry, "response"))
                     /\ Truthy(Prop(entry, "startedDateTime"))
                  THEN "true"
                  ELSE someValidEntry(Tail(entries))

validateHarFile(file) ==
    IF ~file.readable THEN Invalid(MsgReadFailed)
    ELSE IF file.json = SyntaxError THEN Invalid(MsgInvalidJson)
    ELSE LET data == file.json
         IN  IF Nullish(data) THEN Invalid(MsgReadFailed)
             ELSE IF ~Truthy(Prop(data, "log")) THEN Invalid(MsgMissingLog)
             ELSE LET log == Prop(data, "log")
                      entries == Prop(log, "entries")
                  IN  IF ~Truthy(entries) \/ ~IsArray(entries)
                      THEN Invalid(MsgMissingEntries)
                      ELSE IF Len(entries.a) = 0 THEN Invalid(MsgNoRequests)
                      ELSE LET hasValidEntries == someValidEntry(entries.a)
                           IN  IF hasValidEntries = "TypeError" THEN Invalid(MsgReadFailed)
                               ELSE IF hasValidEntries = "false" THEN Invalid(MsgCorrupted)
                               ELSE Valid(~Truthy(Prop(log, "version")))

-----------------------------------------------------------------------------
(* HarParser (src/unnamed/part_000, harParser.ts) *)

MsgInvalidFormat == "Invalid HAR file format"
MsgReaderFailed == "Failed to read file"
\* the message of the SyntaxError that JSON.parse throws
MsgJsonParseError == "Unexpected token (the JSON parser's own message)"

HarParser_validateHarFile(data) ==
    /\ Truthy(data)
    /\ Truthy(Prop(data, "log"))
    /\ Truthy(Prop(Prop(data, "log"), "version"))
    /\ Truthy(Prop(Prop(data, "log"), "creator"))
    /\ IsArray(Prop(Prop(data, "log"), "entries"))

\* how the promise of parseFile settles
Rejected(msg) == [ok |-> FALSE, error |-> {msg}, parsed |-> Absent]
Resolved(parsed) == [ok |-> TRUE, error |-> Absent, parsed |-> {parsed}]

HarParser_parseFile(file) ==
    IF ~file.readable THEN Rejected(MsgReaderFailed)
    ELSE IF file.json = SyntaxError THEN Rejected(MsgJsonParseError)
    ELSE IF ~HarParser_validateHarFile(file.json) THEN Rejected(MsgInvalidFormat)
    ELSE Resolved(file.json)

\* useHarData.loadHarFile: the state the hook is left in once parseFile has
\* settled; every rejection of parseFile is an Error, whose message is shown
loadHarFile(file) ==
    LET settled == HarParser_parseFile(file)
    IN  [isLoading |-> FALSE,
         error |-> IF settled.ok THEN Absent ELSE settled.error,
         harData |-> settled.parsed]

VInit ==
    /\ vFile \in HarFiles
    /\ vOp = "none"
    /\ vResult = <<>>

ValidateHarFile ==
    /\ vOp = "none"
    /\ vOp' = "validateHarFile"
    /\ vResult' = validateHarFile(vFile)
    /\ UNCHANGED <<vFile, vOthers>>

ParseFile ==
    /\ vOp = "none"
    /\ vOp' = "parseFile"
    /\ vResult' = HarParser_parseFile(vFile)
    /\ UNCHANGED <<vFile, vOthers>>

LoadHarFile ==
    /\ vOp = "none"
    /\ vOp' = "loadHarFile"
    /\ vResult' = loadHarFile(vFile)
    /\ UNCHANGED <<vFile, vOthers>>

VNext == ValidateHarFile \/ ParseFile \/ LoadHarFile

-----------------------------------------------------------------------------
(* HAR upload: FileUploader.processFile, App.handleFileUpload,           *)
(* App.handleLoadRecent, useHarData.loadHarFile, HarParser.parseFile     *)

MaxUploads == 2

HarEntry(url) ==
    JObj([request |-> JObj([url |-> JStr(url)]),
          response |-> JObj([status |-> JNum(200)]),
          startedDateTime |-> JStr(<<"2", "0", "2", "4">>)])
FileOf(doc) == [readable |-> TRUE, json |-> doc]
\* a complete HAR file with one entry, and another with two
GoodFile == FileOf(JObj([log |-> MkLog({VersionStr}, {CreatorObj}, {JArr(<<HarEntry(<<"a">>)>>)})]))
OtherGoodFile ==
    FileOf(JObj([log |-> MkLog({VersionStr}, {CreatorObj},
                               {JArr(<<HarEntry(<<"b">>), HarEntry(<<"c">>)>>)})]))
\* a file whose only shortcoming is the missing log.version
NoVersionFile == FileOf(JObj([log |-> MkLog(Absent, {CreatorObj}, {JArr(<<HarEntry(<<"d">>)>>)})]))
\* a capture with no requests
EmptyFile == FileOf(JObj([log |-> MkLog({VersionStr}, {CreatorObj}, {JArr(<<>>)})]))
\* a file that is not JSON
BadJsonFile == FileOf(SyntaxError)
UploadFiles == {GoodFile, OtherGoodFile, NoVersionFile, EmptyFile, BadJsonFile}

\* App.tsx: which of the uploader and the analyser view is rendered
UploaderShown(show, data, loading) == (show \/ data = Absent) /\ ~loading
AnalyzerShown(show, data, loading) == ~UploaderShown(show, data, loading) /\ data # Absent

\* parser.getEntries()
getEntries(parsed) == IF parsed = Absent THEN <<>> ELSE Prop(Prop(Val(parsed), "log"), "entries").a

\* the uploader's own state is lost when the component is not rendered
UploaderState(err, validating, show, data, loading) ==
    IF UploaderShown(show, data, loading) THEN <<err, validating>> ELSE <<Absent, FALSE>>

\* FileUploader.processFile up to its await of validateHarFile
ProcessFile ==
    /\ UploaderShown(showUploader, harData, isLoading)
    /\ Len(procs) < MaxUploads
    /\ \E file \in UploadFiles :
          procs' = Append(procs, [file |-> file, via |-> "uploader", pc |-> "validating"])
    /\ upError' = Absent
    /\ isValidating' = TRUE
    /\ UNCHANGED <<showUploader, recentFiles, harData, selectedEntry, isLoading, error,
                   parserHarData, upOthers>>

\* processFile after the await: a rejection is shown by the uploader; an
\* accepted file goes to onFileUpload, that is App.handleFileUpload, which runs
\* useHarData.loadHarFile up to its await of parser.parseFile
ValidationDone ==
    \E p \in 1..Len(procs) :
        /\ procs[p].pc = "validating"
        /\ LET validation == validateHarFile(procs[p].file)
           IN  IF ~validation.isValid
               THEN /\ procs' = [procs EXCEPT ![p].pc = "rejected"]
                    /\ upError' = UploaderState(validation.error, FALSE, showUploader,
                                                harData, isLoading)[1]
                    /\ isValidating' = FALSE
                    /\ UNCHANGED <<isLoading, error>>
               ELSE /\ procs' = [procs EXCEPT ![p].pc = "reading"]
                    /\ isLoading' = TRUE
                    /\ error' = Absent
                    /\ upError' = Absent
                    /\ isValidating' = FALSE
        /\ UNCHANGED <<showUploader, recentFiles, harData, selectedEntry, parserHarData,
                       upOthers>>

\* App.handleLoadRecent from the toolbar: loadHarFile without the uploader's
\* validation
LoadRecent ==
    /\ AnalyzerShown(showUploader, harData, isLoading)
    /\ Len(procs) < MaxUploads
    /\ \E file \in recentFiles :
          procs' = Append(procs, [file |-> file, via |-> "recent", pc |-> "reading"])
    /\ isLoading' = TRUE
    /\ error' = Absent
    /\ showUploader' = FALSE
    /\ upError' = Absent
    /\ isValidating' = FALSE
    /\ UNCHANGED <<recentFiles, harData, selectedEntry, parserHarData, upOthers>>

\* the FileReader finishes: HarParser.parseFile settles, loadHarFile resumes,
\* and handleFileUpload resumes after it
ReadDone ==
    \E p \in 1..Len(procs) :
        /\ procs[p].pc = "reading"
        /\ LET settled == HarParser_parseFile(procs[p].file)
               show == IF procs[p].via = "uploader" THEN FALSE ELSE showUploader
               data == IF settled.ok THEN settled.parsed ELSE harData
               upState == UploaderState(upError, isValidating, show, data, FALSE)
           IN  /\ IF settled.ok
                  THEN /\ parserHarData' = settled.parsed
                       /\ harData' = settled.parsed
                       /\ selectedEntry' = Absent
                       /\ error' = error
                       /\ procs' = [procs EXCEPT ![p].pc = "loaded"]
                  ELSE /\ error' = settled.error
                       /\ procs' = [procs EXCEPT ![p].pc = "failed"]
                       /\ UNCHANGED <<parserHarData, harData, selectedEntry>>
               /\ isLoading' = FALSE
               /\ showUploader' = show
               /\ recentFiles' = IF procs[p].via = "uploader"
                                 THEN recentFiles \cup {procs[p].file}
                                 ELSE recentFiles
               /\ upError' = upState[1]
               /\ isValidating' = upState[2]
        /\ UNCHANGED upOthers

\* RequestList.onSelectEntry with an entry of the list
SetSelectedEntry ==
    /\ AnalyzerShown(showUploader, harData, isLoading)
    /\ \E n \in 1..Len(getEntries(parserHarData)) :
          selectedEntry' = {getEntries(parserHarData)[n]}
    /\ UNCHANGED <<procs, upError, isValidating, showUploader, recentFiles, harData,
                   isLoading, error, parserHarData, upOthers>>

\* RequestDetails.onClose
CloseDetails ==
    /\ AnalyzerShown(showUploader, harData, isLoading)
    /\ selectedEntry # Absent
    /\ selectedEntry' = Absent
    /\ UNCHANGED <<procs, upError, isValidating, showUploader, recentFiles, harData,
                   isLoading, error, parserHarData, upOthers>>

\* App.handleUploadNew from the toolbar: show the uploader and clearData
UploadNew ==
    /\ AnalyzerShown(showUploader, harData, isLoading)
    /\ showUploader' = TRUE
    /\ harData' = Absent
    /\ selectedEntry' = Absent
    /\ error' = Absent
    /\ UNCHANGED <<procs, upError, isValidating, recentFiles, isLoading, parserHarData,
                   upOthers>>

\* the error banner's dismiss button: clearData
DismissError ==
    /\ error # Absent
    /\ harData' = Absent
    /\ selectedEntry' = Absent
    /\ error' = Absent
    /\ UNCHANGED <<procs, showUploader, recentFiles, isLoading, parserHarData, upOthers>>
    /\ upError' = UploaderState(upError, isValidating, showUploader, Absent, isLoading)[1]
    /\ isValidating' = UploaderState(upError, isValidating, showUploader, Absent, isLoading)[2]

UpNext ==
    \/ ProcessFile
    \/ ValidationDone
    \/ LoadRecent
    \/ ReadDone
    \/ SetSelectedEntry
    \/ CloseDetails
    \/ UploadNew
    \/ DismissError

-----------------------------------------------------------------------------
(* Strings and regular expressions, as the console-log parser uses them. *)
(* A string that the code inspects is its sequence of characters.        *)

UpperSeq ==
    <<"A", "B", "C", "D", "E", "F", "G", "H", "I", "J", "K", "L", "M",
      "N", "O", "P", "Q", "R", "S", "T", "U", "V", "W", "X", "Y", "Z">>
LowerSeq ==
    <<"a", "b", "c", "d", "e", "f", "g", "h", "i", "j", "k", "l", "m",
      "n", "o", "p", "q", "r", "s", "t", "u", "v", "w", "x", "y", "z">>
\* \d, \w and \s
Digits == {"0", "1", "2", "3", "4", "5", "6", "7", "8", "9"}
WordChars == Range(UpperSeq) \cup Range(LowerSeq) \cup Digits \cup {"_"}
Space == {" ", "\t", "\r", "\n"}
\* the characters "." does not match
LineTerminators == {"\n", "\r"}

\* String.prototype.toLowerCase
LowerChar(c) ==
    IF c \in Range(UpperSeq)
    THEN LowerSeq[CHOOSE n \in 1..Len(UpperSeq) : UpperSeq[n] = c]
    ELSE c
ToLower(s) == [n \in 1..Len(s) |-> LowerChar(s[n])]

\* String.prototype.trim
RECURSIVE TrimStart(_)
TrimStart(s) ==
    IF s # <<>> /\ Head(s) \in Space THEN TrimStart(Tail(s)) ELSE s
RECURSIVE TrimEnd(_)
TrimEnd(s) ==
    IF s # <<>> /\ s[Len(s)] \in Space THEN TrimEnd(SubSeq(s, 1, Len(s) - 1)) ELSE s
Trim(s) == TrimEnd(TrimStart(s))

\* String.prototype.startsWith
StartsWith(s, prefix) ==
    Len(s) >= Len(prefix) /\ SubSeq(s, 1, Len(prefix)) = prefix

Newline == <<"\n">>

\* String.prototype.includes
Includes(s, sub) == \E i \in 0..(Len(s) - Len(sub)) : SubSeq(s, i + 1, i + Len(sub)) = sub

\* Array.prototype.join
RECURSIVE Join(_, _)
Join(strs, sep) ==
    IF strs = <<>> THEN <<>>
    ELSE IF Len(strs) = 1 THEN strs[1]
    ELSE strs[1] \o sep \o Join(Tail(strs), sep)

\* A regular expression is a sequence of items: a character class with a
\* repetition count (max -1: unbounded), the opening or closing bracket of
\* capture group g, an optional non-capturing group, an alternation, "$".
\* Every pattern of the parser starts with "^".
Rep(set, neg, min, max, lazy) ==
    [k |-> "cls", set |-> set, neg |-> neg, min |-> min, max |-> max, lazy |-> lazy]
Lit(c) == Rep({c}, FALSE, 1, 1, FALSE)
One(set) == Rep(set, FALSE, 1, 1, FALSE)
Times(set, n) == Rep(set, FALSE, n, n, FALSE)
Between(set, min, max) == Rep(set, FALSE, min, max, FALSE)
Maybe(set) == Rep(set, FALSE, 0, 1, FALSE)
Star(set) == Rep(set, FALSE, 0, -1, FALSE)
Plus(set) == Rep(set, FALSE, 1, -1, FALSE)
PlusNot(set) == Rep(set, TRUE, 1, -1, FALSE)
DotStar == Rep(LineTerminators, TRUE, 0, -1, FALSE)
DotPlus == Rep(LineTerminators, TRUE, 1, -1, FALSE)
DotPlusLazy == Rep(LineTerminators, TRUE, 1, -1, TRUE)
Open(g) == [k |-> "open", g |-> g]
Close(g) == [k |-> "close", g |-> g]
Opt(body) == [k |-> "opt", body |-> body]
Alt(left, right) == [k |-> "alt", left |-> left, right |-> right]
End == [k |-> "end"]
RECURSIVE Str(_)
Str(s) == IF s = <<>> THEN <<>> ELSE <<Lit(Head(s))>> \o Str(Tail(s))

\* the span of a capture group that did not take part in the match
Unset == <<0, -1>>
NoMatch == [ok |-> FALSE]
InClass(item, c) == (c \in item.set) # item.neg

\* how many characters from pos on the class can consume, at most item.max
RECURSIVE RunLen(_, _, _, _)
RunLen(item, s, pos, n) ==
    IF /\ pos + n <= Len(s)
       /\ (item.max = -1 \/ n < item.max)
       /\ InClass(item, s[pos + n])
    THEN RunLen(item, s, pos, n + 1)
    ELSE n

\* Backtracking match of re against s from pos, as the engine does it:
\* greedy repetitions try the longest run first, lazy ones the shortest.
RECURSIVE Match(_, _, _, _)
RECURSIVE TryCounts(_, _, _, _, _, _, _)
TryCounts(re, s, pos, caps, n, last, step) ==
    LET r == Match(re, s, pos + n, caps)
    IN  IF r.ok THEN r
        ELSE IF n = last THEN NoMatch
        ELSE TryCounts(re, s, pos, caps, n + step, last, step)
Match(re, s, pos, caps) ==
    IF re = <<>> THEN [ok |-> TRUE, caps |-> caps]
    ELSE LET item == Head(re)
             rest == Tail(re)
         IN  CASE item.k = "end" ->
                    IF pos = Len(s) + 1 THEN Match(rest, s, pos, caps) ELSE NoMatch
               [] item.k = "open" ->
                    Match(rest, s, pos, [caps EXCEPT ![item.g] = <<pos, -1>>])
               [] item.k = "close" ->
                    Match(rest, s, pos, [caps EXCEPT ![item.g] = <<caps[item.g][1], pos - 1>>])
               [] item.k = "opt" ->
                    LET r == Match(item.body \o rest, s, pos, caps)
                    IN  IF r.ok THEN r ELSE Match(rest, s, pos, caps)
               [] item.k = "alt" ->
                    LET r == Match(item.left \o rest, s, pos, caps)
                    IN  IF r.ok THEN r ELSE Match(item.right \o rest, s, pos, caps)
               [] item.k = "cls" ->
                    LET n == RunLen(item, s, pos, 0)
                    IN  IF n < item.min THEN NoMatch
                        ELSE IF item.lazy
                        THEN TryCounts(rest, s, pos, caps, item.min, n, 1)
                        ELSE TryCounts(rest, s, pos, caps, n, item.min, -1)

\* RegExp.prototype.test and String.prototype.match for an anchored pattern
Exec(re, s) == Match(re, s, 1, [g \in 1..6 |-> Unset])
Test(re, s) == Exec(re, s).ok
\* the text of capture group g: absent when the group took no part
Group(m, s, g) ==
    IF m.caps[g] = Unset THEN Absent ELSE {SubSeq(s, m.caps[g][1], m.caps[g][2])}
-----------------------------------------------------------------------------
(* HarAnalyzer (src/unnamed/part_000, harAnalyzer.ts) *)

MaxEntries == 3
MaxPages == 2

PageIds == {"p1", "p2"}
\* pageref: absent, empty, naming a page of the file, naming no page
PageRefs == {Absent, {""}, {"p1"}, {"p2"}, {"p9"}}

\* Timings: the optional phases may be absent; -1 is HAR's "does not apply"
OptPhase == {Absent, {-1}, {0}, {5}}
ReqPhase == {{0}, {5}}
TimingsSet ==
    [blocked : OptPhase, dns : OptPhase, connect : OptPhase, ssl : OptPhase,
     send : ReqPhase, wait : ReqPhase, receive : ReqPhase]
DefaultTimings ==
    [blocked |-> Absent, dns |-> Absent, connect |-> Absent, ssl |-> Absent,
     send |-> {0}, wait |-> {5}, receive |-> {0}]

\* An entry object; id stands for the object's identity (its place in the file)
MkEntry(n, pageref, status, timings) ==
    [id |-> n, pageref |-> pageref, status |-> status, timings |-> timings]
\* Collections that vary the page reference
PagerefLists ==
    {[n \in 1..Len(s) |-> MkEntry(n, s[n], 200, DefaultTimings)] :
        s \in SeqsUpTo(PageRefs, MaxEntries)}
\* One-entry collections that vary the timings
TimingLists == {<<MkEntry(1, Absent, 200, t)>> : t \in TimingsSet}
EntryLists == PagerefLists \cup TimingLists
PageLists == {[n \in 1..Len(s) |-> [id |-> s[n]]] : s \in SeqsUpTo(PageIds, MaxPages)}

\* JavaScript truthiness of an optional string / number
TruthyStr(opt) == opt # Absent /\ opt # {""}
\* x || 0 on an optional number
OrZero(opt) == IF opt = Absent \/ opt = {0} THEN 0 ELSE Val(opt)

\* Map: insertion-ordered sequence of <<key, value>>; set() on an existing key
\* replaces its value in place
MapHas(m, k) == \E n \in 1..Len(m) : m[n][1] = k
MapGet(m, k) == m[CHOOSE n \in 1..Len(m) : m[n][1] = k][2]
MapSet(m, k, v) ==
    IF MapHas(m, k)
    THEN [n \in 1..Len(m) |-> IF m[n][1] = k THEN <<k, v>> ELSE m[n]]
    ELSE Append(m, <<k, v>>)

RECURSIVE groupPages(_, _, _)
groupPages(entries, pages, grouped) ==
    IF pages = <<>> THEN grouped
    ELSE LET page == Head(pages)
             IsOfPage(entry) == entry.pageref = {page.id}
             pageEntries == SelectSeq(entries, IsOfPage)
         IN  groupPages(entries, Tail(pages), MapSet(grouped, page.id, pageEntries))

groupByPage(entries, pages) ==
    LET grouped == groupPages(entries, pages, <<>>)
        IsOrphan(entry) == ~TruthyStr(entry.pageref)
        orphanEntries == SelectSeq(entries, IsOrphan)
    IN  IF Len(orphanEntries) > 0
        THEN MapSet(grouped, "_orphan", orphanEntries)
        ELSE grouped

calculateTotalTime(timings) ==
    OrZero(timings.blocked) + OrZero(timings.dns) + OrZero(timings.connect)
    + OrZero(timings.send) + OrZero(timings.wait) + OrZero(timings.receive)
    + OrZero(timings.ssl)

getTimingBreakdown(entry) ==
    LET timings == entry.timings
    IN  [blocked |-> OrZero(timings.blocked),
         dns |-> OrZero(timings.dns),
         connect |-> OrZero(timings.connect),
         ssl |-> OrZero(timings.ssl),
         send |-> OrZero(timings.send),
         wait |-> OrZero(timings.wait),
         receive |-> OrZero(timings.receive)]

AnInit ==
    /\ anEntries \in EntryLists
    /\ anPages \in PageLists
    /\ anOp = "none"
    /\ anArgs = <<>>
    /\ anResult = <<>>

GroupByPage ==
    /\ anOp = "none"
    /\ anOp' = "groupByPage"
    /\ anResult' = groupByPage(anEntries, anPages)
    /\ UNCHANGED <<anEntries, anPages, anArgs, anOthers>>

GetTimingBreakdown ==
    /\ anOp = "none"
    /\ \E n \in 1..Len(anEntries) :
          /\ anOp' = "getTimingBreakdown"
          /\ anResult' = <<getTimingBreakdown(anEntries[n]),
                           calculateTotalTime(anEntries[n].timings)>>
    /\ UNCHANGED <<anEntries, anPages, anArgs, anOthers>>

AnNext == GroupByPage \/ GetTimingBreakdown

-----------------------------------------------------------------------------
(* The status filters: HarAnalyzer.filterByStatusCode (part_000) and the  *)
(* filteredEntries of useHarData (src/src/hooks/useHarData.ts)            *)

\* response.status values: 0 is an aborted request, 50 and 999 lie outside the
\* classes 1xx to 5xx
Statuses == {0, 50, 200, 301, 404, 503, 999}
\* response.statusText
StatusText(status) ==
    CASE status = 200 -> <<"O", "K">>
      [] status = 404 -> <<"N", "o", "t", " ", "F", "o", "u", "n", "d">>
      [] OTHER -> <<>>
\* An entry with the properties the filters read
MkHarEntry(n, status) ==
    [id |-> n, pageref |-> Absent, status |-> status, timings |-> DefaultTimings,
     url |-> <<"/", "a", "p", "i">>, method |-> <<"G", "E", "T">>,
     statusText |-> StatusText(status)]
ScenarioStatuses == <<200, 301, 404, 0>>
\* statuses at the edges of the classes
EdgeStatuses == {<<100, 199, 600>>, <<99, 599, -1>>}
StatusLists ==
    {[n \in 1..Len(s) |-> MkHarEntry(n, s[n])] :
        s \in SeqsUpTo(Statuses, MaxEntries) \cup {ScenarioStatuses} \cup EdgeStatuses}

\* The codes a caller passes: the six classes, and two codes inside a class
Codes == {0, 50, 100, 200, 250, 300, 400, 500}
AllClasses == <<0, 100, 200, 300, 400, 500>>
RECURSIVE Ascending(_)
Ascending(S) ==
    IF S = {} THEN <<>>
    ELSE LET least == CHOOSE x \in S : \A y \in S : x <= y
         IN  <<least>> \o Ascending(S \ {least})
CodeLists == {Ascending(S) : S \in SUBSET Codes}

\* with the code 0 bucketed like every other code
filterByStatusCode_zeroBucketed(entries, codes) ==
    LET Some(entry) ==
            \E k \in 1..Len(codes) : codes[k] \div 100 = entry.status \div 100
    IN  SelectSeq(entries, Some)

\* Math.floor(x / 100) is x \div 100, which rounds down for negative x too
filterByStatusCode(entries, codes) ==
    LET Some(entry) ==
            \E k \in 1..Len(codes) :
                LET code == codes[k]
                    status == entry.status
                IN  IF code = 0 THEN status = 0
                    ELSE LET range == code \div 100
                             statusRange == status \div 100
                         IN  range = statusRange
    IN  SelectSeq(entries, Some)

HarAnalyzer_searchEntries(entries, term) ==
    LET lowerTerm == ToLower(term)
        Found(entry) ==
            \/ Includes(ToLower(entry.url), lowerTerm)
            \/ Includes(ToLower(entry.method), lowerTerm)
            \/ Includes(ToLower(entry.statusText), lowerTerm)
    IN  SelectSeq(entries, Found)

\* FilterOptions.statusCodes: the keys in the order Object.entries gives them
StatusKeys == <<"0", "1xx", "2xx", "3xx", "4xx", "5xx">>
SearchTerms == {<<>>, <<" ">>, <<"o", "k">>}
Filters == [statusCodes : [Range(StatusKeys) -> BOOLEAN], searchTerm : SearchTerms]

\* with the upper end of every class included in it
filteredEntries_inclusive(entries, filters) ==
    LET IsActive(code) == filters.statusCodes[code]
        activeStatusCodes == SelectSeq(StatusKeys, IsActive)
        Some(entry) ==
            LET status == entry.status
            IN  \E k \in 1..Len(activeStatusCodes) :
                    LET code == activeStatusCodes[k]
                    IN  CASE code = "0" -> status = 0
                          [] code = "1xx" -> status >= 100 /\ status <= 200
                          [] code = "2xx" -> status >= 200 /\ status <= 300
                          [] code = "3xx" -> status >= 300 /\ status <= 400
                          [] code = "4xx" -> status >= 400 /\ status <= 500
                          [] code = "5xx" -> status >= 500 /\ status <= 600
                          [] OTHER -> FALSE
        byStatus == IF Len(activeStatusCodes) > 0 THEN SelectSeq(entries, Some) ELSE entries
    IN  IF Trim(filters.searchTerm) # <<>>
        THEN HarAnalyzer_searchEntries(byStatus, filters.searchTerm)
        ELSE byStatus

\* useHarData's filteredEntries once a file is loaded; entries is what
\* parser.getEntries() gives
filteredEntries(entries, filters) ==
    LET IsActive(code) == filters.statusCodes[code]
        activeStatusCodes == SelectSeq(StatusKeys, IsActive)
        Some(entry) ==
            LET status == entry.status
            IN  \E k \in 1..Len(activeStatusCodes) :
                    LET code == activeStatusCodes[k]
                    IN  CASE code = "0" -> status = 0
                          [] code = "1xx" -> status >= 100 /\ status < 200
                          [] code = "2xx" -> status >= 200 /\ status < 300
                          [] code = "3xx" -> status >= 300 /\ status < 400
                          [] code = "4xx" -> status >= 400 /\ status < 500
                          [] code = "5xx" -> status >= 500 /\ status < 600
                          [] OTHER -> FALSE
        byStatus == IF Len(activeStatusCodes) > 0 THEN SelectSeq(entries, Some) ELSE entries
    IN  IF Trim(filters.searchTerm) # <<>>
        THEN HarAnalyzer_searchEntries(byStatus, filters.searchTerm)
        ELSE byStatus

FilterInit ==
    /\ anEntries \in StatusLists
    /\ anPages = <<>>
    /\ anOp = "none"
    /\ anArgs = <<>>
    /\ anResult = <<>>

FilterByStatusCode ==
    /\ anOp = "none"
    /\ \E codes \in CodeLists :
          /\ anOp' = "filterByStatusCode"
          /\ anArgs' = [codes |-> codes]
          /\ anResult' = filterByStatusCode(anEntries, codes)
    /\ UNCHANGED <<anEntries, anPages, anOthers>>

FilteredEntries ==
    /\ anOp = "none"
    /\ \E filters \in Filters :
          /\ anOp' = "filteredEntries"
          /\ anArgs' = filters
          /\ anResult' = filteredEntries(anEntries, filters)
    /\ UNCHANGED <<anEntries, anPages, anOthers>>

FilterNext == FilterByStatusCode \/ FilteredEntries

-----------------------------------------------------------------------------
(* Numbers that are not numbers, and the value of a digit *)

\* A count is a number or NaN: undefined++ and NaN++ both leave NaN
NaN == [t |-> "nan"]
DigitValue(c) ==
    CASE c = "0" -> 0 [] c = "1" -> 1 [] c = "2" -> 2 [] c = "3" -> 3 [] c = "4" -> 4
      [] c = "5" -> 5 [] c = "6" -> 6 [] c = "7" -> 7 [] c = "8" -> 8 [] c = "9" -> 9
RECURSIVE parseInt(_)

-----------------------------------------------------------------------------
(* Dates, as ConsoleLogAnalyzer reads them: new Date(text).getTime()      *)

\* The texts the model gives to Date are ISO date-times in UTC,
\* 'YYYY-MM-DDTHH:MM:SSZ', which every engine parses, and texts with no digit
\* in them, for which every engine gives NaN. A time value is a day since
\* 1970-01-01 and the milliseconds of that day: the milliseconds since 1970
\* exceed the model's integers.
IsoShape(s) ==
    /\ Len(s) = 20
    /\ \A i \in {1, 2, 3, 4, 6, 7, 9, 10, 12, 13, 15, 16, 18, 19} : s[i] \in Digits
    /\ s[5] = "-" /\ s[8] = "-" /\ s[11] = "T" /\ s[14] = ":" /\ s[17] = ":" /\ s[20] = "Z"
TwoDigits(s, i) == 10 * DigitValue(s[i]) + DigitValue(s[i + 1])
IsLeap(y) == y % 4 = 0 /\ (y % 100 # 0 \/ y % 400 = 0)
DaysInMonth(y, m) ==
    CASE m = 2 -> IF IsLeap(y) THEN 29 ELSE 28
      [] m \in {4, 6, 9, 11} -> 30
      [] OTHER -> 31
\* the days from 1970-01-01 to the day y-m-d of the Gregorian calendar
DaysFromCivil(y, m, d) ==
    LET yy == IF m <= 2 THEN y - 1 ELSE y
        era == yy \div 400
        yoe == yy - era * 400
        mp == (m + 9) % 12
        doy == (153 * mp + 2) \div 5 + d - 1
        doe == yoe * 365 + yoe \div 4 - yoe \div 100 + doy
    IN  era * 146097 + doe - 719468
TimeValue(days, ms) == [t |-> "time", days |-> days, ms |-> ms]
getTime(text) ==
    IF ~IsoShape(text) THEN NaN
    ELSE LET year == 100 * TwoDigits(text, 1) + TwoDigits(text, 3)
             month == TwoDigits(text, 6)
             day == TwoDigits(text, 9)
             hour == TwoDigits(text, 12)
             minute == TwoDigits(text, 15)
             second == TwoDigits(text, 18)
         IN  IF \/ month \notin 1..12
                \/ day \notin 1..DaysInMonth(year, month)
                \/ hour > 23 \/ minute > 59 \/ second > 59
             THEN NaN
             ELSE TimeValue(DaysFromCivil(year, month, day),
                            ((hour * 60 + minute) * 60 + second) * 1000)
\* a < b on time values: false when either is NaN
LessThan(a, b) ==
    /\ a # NaN /\ b # NaN
    /\ a.days < b.days \/ (a.days = b.days /\ a.ms < b.ms)


\* 'YYYY-MM-DDTHH:MM:SS.sssZ', the form Date.prototype.toISOString writes
IsoMillisShape(s) ==
    /\ Len(s) = 24
    /\ \A i \in {1, 2, 3, 4, 6, 7, 9, 10, 12, 13, 15, 16, 18, 19, 21, 22, 23} : s[i] \in Digits
    /\ s[5] = "-" /\ s[8] = "-" /\ s[11] = "T" /\ s[14] = ":" /\ s[17] = ":"
    /\ s[20] = "." /\ s[24] = "Z"
\* new Date(text) for a text of either form; hour 24 is midnight of the next day
DateOf(text) ==
    LET year == 100 * TwoDigits(text, 1) + TwoDigits(text, 3)
        month == TwoDigits(text, 6)
        day == TwoDigits(text, 9)
        hour == TwoDigits(text, 12)
        minute == TwoDigits(text, 15)
        second == TwoDigits(text, 18)
        millis == IF IsoMillisShape(text)
                  THEN 10 * TwoDigits(text, 21) + DigitValue(text[23]) ELSE 0
        ms == ((hour * 60 + minute) * 60 + second) * 1000 + millis
    IN  IF \/ month \notin 1..12
           \/ day \notin 1..DaysInMonth(year, month)
           \/ hour > 24 \/ minute > 59 \/ second > 59
           \/ (hour = 24 /\ ms # 86400000)
        THEN NaN
        ELSE IF hour = 24 THEN TimeValue(DaysFromCivil(year, month, day) + 1, 0)
        ELSE TimeValue(DaysFromCivil(year, month, day), ms)
\* the day of the Gregorian calendar that is `days` days after 1970-01-01
CivilFromDays(days) ==
    LET z == days + 719468
        era == z \div 146097
        doe == z - era * 146097
        yoe == (doe - doe \div 1460 + doe \div 36524 - doe \div 146096) \div 365
        doy == doe - (365 * yoe + yoe \div 4 - yoe \div 100)
        mp == (5 * doy + 2) \div 153
        d == doy - (153 * mp + 2) \div 5 + 1
        m == IF mp < 10 THEN mp + 3 ELSE mp - 9
    IN  [year |-> yoe + era * 400 + (IF m <= 2 THEN 1 ELSE 0), month |-> m, day |-> d]
\* the decimal digits of n, padded with zeros to the width
DigitChar(n) == CHOOSE c \in Digits : DigitValue(c) = n
RECURSIVE Padded(_, _)
Padded(n, width) ==
    IF width = 0 THEN <<>>
    ELSE Append(Padded(n \div 10, width - 1), DigitChar(n % 10))
\* Date.prototype.toISOString, for the years 0 to 9999
ISOString(time) ==
    LET civil == CivilFromDays(time.days)
        seconds == time.ms \div 1000
    IN  Padded(civil.year, 4) \o <<"-">> \o Padded(civil.month, 2) \o <<"-">>
        \o Padded(civil.day, 2) \o <<"T">> \o Padded(seconds \div 3600, 2) \o <<":">>
        \o Padded((seconds \div 60) % 60, 2) \o <<":">> \o Padded(seconds % 60, 2)
        \o <<".">> \o Padded(time.ms % 1000, 3) \o <<"Z">>

-----------------------------------------------------------------------------
(* ConsoleLogParser, the plain-text side (src/unnamed/part_002) *)

\* the LogLevel values
Log == <<"l", "o", "g">>
Info == <<"i", "n", "f", "o">>
Warn == <<"w", "a", "r", "n">>
ErrorLevel == <<"e", "r", "r", "o", "r">>
Debug == <<"d", "e", "b", "u", "g">>
Trace == <<"t", "r", "a", "c", "e">>
Verbose == <<"v", "e", "r", "b", "o", "s", "e">>
LogLevel == {Log, Info, Warn, ErrorLevel, Debug, Trace, Verbose}
\* the other level words the parser knows
Warning == <<"w", "a", "r", "n", "i", "n", "g">>
Err == <<"e", "r", "r">>
Fatal == <<"f", "a", "t", "a", "l">>
Critical == <<"c", "r", "i", "t", "i", "c", "a", "l">>
Panic == <<"p", "a", "n", "i", "c">>
Information == <<"i", "n", "f", "o", "r", "m", "a", "t", "i", "o", "n">>
Inf == <<"i", "n", "f">>
Dbg == <<"d", "b", "g">>
Notice == <<"n", "o", "t", "i", "c", "e">>
Emerg == <<"e", "m", "e", "r", "g">>
Emergency == <<"e", "m", "e", "r", "g", "e", "n", "c", "y">>
Alert == <<"a", "l", "e", "r", "t">>
Crit == <<"c", "r", "i", "t">>
\* levelMap is an object literal: besides its own keys it answers to the
\* keys it inherits from Object.prototype, with values that are not strings.
\* These two are the inherited keys that survive toLowerCase.
ConstructorKey == <<"c", "o", "n", "s", "t", "r", "u", "c", "t", "o", "r">>
ProtoKey == <<"_", "_", "p", "r", "o", "t", "o", "_", "_">>
ObjectConstructor == <<"[Function: Object]">>
ObjectPrototype == <<"[Object: null prototype] {}">>

isValidLogLevel(level) ==
    ToLower(level) \in {Log, Info, Warn, Warning, ErrorLevel, Err, Debug, Trace,
                        Verbose, Fatal, Critical}

levelMap(key) ==
    CASE key = Warning -> {Warn}
      [] key \in {Err, Fatal, Critical, Panic, Emerg, Emergency, Alert, Crit} -> {ErrorLevel}
      [] key \in {Information, Inf, Notice} -> {Info}
      [] key = Dbg -> {Debug}
      [] key = Verbose -> {Verbose}
      [] key = Trace -> {Trace}
      [] key = ConstructorKey -> {ObjectConstructor}
      [] key = ProtoKey -> {ObjectPrototype}
      [] OTHER -> Absent

normalizeLogLevel(level) ==
    LET normalized == Trim(ToLower(level))
    IN  IF normalized \in LogLevel THEN normalized
        ELSE IF levelMap(normalized) # Absent THEN Val(levelMap(normalized))
        ELSE Log

\* parseInt of a string of digits
parseInt(digits) ==
    IF digits = <<>> THEN 0
    ELSE 10 * parseInt(SubSeq(digits, 1, Len(digits) - 1)) + DigitValue(digits[Len(digits)])

\* parseInt(digits) > 10000000000, decided on the digits: the numbers of a
\* Unix timestamp in milliseconds do not fit the model's integers
RECURSIVE StripZeros(_)
StripZeros(digits) ==
    IF digits # <<>> /\ Head(digits) = "0" THEN StripZeros(Tail(digits)) ELSE digits
TenToTheTen == <<"1", "0", "0", "0", "0", "0", "0", "0", "0", "0", "0">>
\* a variant that decides on the number of digits written
ExceedsTenToTheTen_byLength(digits) == Len(digits) > 10

ExceedsTenToTheTen(digits) ==
    LET d == StripZeros(digits)
    IN  Len(d) > Len(TenToTheTen) \/ (Len(d) = Len(TenToTheTen) /\ d # TenToTheTen)

\* String.prototype.replace with a string pattern: the first occurrence only
RECURSIVE Replace(_, _, _)
Replace(s, from, to) ==
    IF s = <<>> THEN <<>>
    ELSE IF Head(s) = from THEN <<to>> \o Tail(s)
    ELSE <<Head(s)>> \o Replace(Tail(s), from, to)

\* Timestamps: what the clock and the Date conversions give is left symbolic
Now == [kind |-> "now"]
\* normalizeTimestamp is computed on the two ISO forms: a date that exists
\* is rewritten by toISOString, one that does not is returned as it is (it
\* does not start with a time of day). On any other text the engine's reading
\* of it is left symbolic.
normalizeTimestamp(timestamp) ==
    IF IsoShape(timestamp) \/ IsoMillisShape(timestamp)
    THEN IF DateOf(timestamp) # NaN THEN ISOString(DateOf(timestamp)) ELSE timestamp
    ELSE [kind |-> "normalized", raw |-> timestamp]
EpochDate(digits) ==
    [kind |-> "epoch", unit |-> IF ExceedsTenToTheTen(digits) THEN "ms" ELSE "s",
     digits |-> StripZeros(digits)]
TodayAt(time) == [kind |-> "today", time |-> Replace(time, ",", ".")]

\* The line patterns of parsePlainTextLine
Colon == Lit(":")
CapWord(g) == <<Open(g), Plus(WordChars), Close(g)>>
CapDigits(g) == <<Open(g), Plus(Digits), Close(g)>>
CapRest(g) == <<Open(g), DotPlus, Close(g), End>>
Clock == <<Times(Digits, 2), Colon, Times(Digits, 2), Colon, Times(Digits, 2),
           Opt(<<One({".", ","}), Between(Digits, 1, 6)>>)>>

chromePattern ==
    <<Lit("["), Open(1), PlusNot({"]"}), Close(1), Lit("]"), Star(Space)>>
    \o CapWord(2) \o <<Colon, Star(Space)>> \o CapRest(3)
browserPattern ==
    CapWord(1) \o <<Colon, Star(Space), Open(2), DotPlusLazy, Close(2), Plus(Space), Open(3)>>
    \o Str(<<"h", "t", "t", "p">>) \o <<Maybe({"s"}), Colon, Lit("/"), Lit("/"), PlusNot(Space), Close(3), Colon>>
    \o CapDigits(4) \o <<Colon>> \o CapDigits(5) \o <<End>>
isoPattern ==
    <<Open(1), Times(Digits, 4), Lit("-"), Times(Digits, 2), Lit("-"), Times(Digits, 2),
      One({"T"} \cup Space)>>
    \o Clock
    \o <<Opt(<<Alt(<<Lit("Z")>>,
                   <<One({"+", "-"}), Times(Digits, 2), Maybe({":"}), Times(Digits, 2)>>)>>),
         Close(1), Plus(Space)>>
    \o CapWord(2) \o <<Plus(Space)>> \o CapRest(3)
unixPattern ==
    <<Open(1), Between(Digits, 10, 13), Close(1), Plus(Space)>>
    \o CapWord(2) \o <<Plus(Space)>> \o CapRest(3)
sourcePattern ==
    CapWord(1)
    \o <<Plus({":"} \cup Space),
         Opt(<<Open(2), DotPlusLazy, Close(2), Plus(Space), Lit("a"), Lit("t"), Plus(Space)>>),
         Open(3), DotPlusLazy, Close(3), Colon>>
    \o CapDigits(4) \o <<Colon>> \o CapDigits(5)
    \o <<Star(Space), Open(6), DotStar, Close(6), End>>
simplePattern ==
    <<Maybe({"["})>> \o CapWord(1) \o <<Maybe({"]"}), Colon, Star(Space)>> \o CapRest(2)
timePattern ==
    <<Open(1)>> \o Clock \o <<Close(1), Plus(Space)>>
    \o CapWord(2) \o <<Plus(Space)>> \o CapRest(3)
levelWordPattern ==
    CapWord(1) \o <<Plus(Space)>> \o CapRest(2)

\* A ConsoleLogEntry; the optional properties are present or Absent
LogEntry(id, timestamp, level, message) ==
    [id |-> id, timestamp |-> timestamp, level |-> level, message |-> message,
     url |-> Absent, source |-> Absent, lineNumber |-> Absent,
     columnNumber |-> Absent, stackTrace |-> Absent, args |-> Absent,
     category |-> Absent]

\* match[g] of a group that took part in the match
Cap(m, s, g) == Val(Group(m, s, g))
\* a || b || '' on optional strings: absent and empty are falsy
FirstTruthy(a, b) ==
    IF a # Absent /\ Val(a) # <<>> THEN Val(a)
    ELSE IF b # Absent /\ Val(b) # <<>> THEN Val(b)
    ELSE <<>>

\* a variant that tries the simple level prefix before the source pattern
matchedPattern_simpleFirst(line) ==
    LET sourceMatch == Exec(sourcePattern, line)
        simpleMatch == Exec(simplePattern, line)
        timeMatch == Exec(timePattern, line)
        levelWordMatch == Exec(levelWordPattern, line)
    IN  IF Trim(line) = <<>> THEN 0
        ELSE IF Test(chromePattern, line) THEN 1
        ELSE IF Test(browserPattern, line) THEN 2
        ELSE IF Test(isoPattern, line) THEN 3
        ELSE IF Test(unixPattern, line) THEN 4
        ELSE IF simpleMatch.ok /\ isValidLogLevel(Cap(simpleMatch, line, 1)) THEN 6
        ELSE IF sourceMatch.ok /\ isValidLogLevel(Cap(sourceMatch, line, 1)) THEN 5
        ELSE IF timeMatch.ok /\ isValidLogLevel(Cap(timeMatch, line, 2)) THEN 7
        ELSE IF levelWordMatch.ok /\ isValidLogLevel(Cap(levelWordMatch, line, 1)) THEN 8
        ELSE 9

\* The pattern of the cascade that decides the line, 1 to 8 in the order
\* tried; 9 is the default at the end, 0 a blank line (null is returned)
matchedPattern(line) ==
    LET sourceMatch == Exec(sourcePattern, line)
        simpleMatch == Exec(simplePattern, line)
        timeMatch == Exec(timePattern, line)
        levelWordMatch == Exec(levelWordPattern, line)
    IN  IF Trim(line) = <<>> THEN 0
        ELSE IF Test(chromePattern, line) THEN 1
        ELSE IF Test(browserPattern, line) THEN 2
        ELSE IF Test(isoPattern, line) THEN 3
        ELSE IF Test(unixPattern, line) THEN 4
        ELSE IF sourceMatch.ok /\ isValidLogLevel(Cap(sourceMatch, line, 1)) THEN 5
        ELSE IF simpleMatch.ok /\ isValidLogLevel(Cap(simpleMatch, line, 1)) THEN 6
        ELSE IF timeMatch.ok /\ isValidLogLevel(Cap(timeMatch, line, 2)) THEN 7
        ELSE IF levelWordMatch.ok /\ isValidLogLevel(Cap(levelWordMatch, line, 1)) THEN 8
        ELSE 9

\* uuid stands for the value uuidv4() returns to this call
parsePlainTextLine(line, uuid) ==
    LET chromeMatch == Exec(chromePattern, line)
        browserMatch == Exec(browserPattern, line)
        isoMatch == Exec(isoPattern, line)
        unixMatch == Exec(unixPattern, line)
        sourceMatch == Exec(sourcePattern, line)
        simpleMatch == Exec(simplePattern, line)
        timeMatch == Exec(timePattern, line)
        levelWordMatch == Exec(levelWordPattern, line)
        pattern == matchedPattern(line)
    IN  CASE pattern = 0 -> Absent
          [] pattern = 1 ->
            {LogEntry(uuid, normalizeTimestamp(Cap(chromeMatch, line, 1)),
                      normalizeLogLevel(Cap(chromeMatch, line, 2)),
                      Cap(chromeMatch, line, 3))}
          [] pattern = 2 ->
            {[LogEntry(uuid, Now, normalizeLogLevel(Cap(browserMatch, line, 1)),
                       Cap(browserMatch, line, 2))
                EXCEPT !.url = {Cap(browserMatch, line, 3)},
                       !.lineNumber = {parseInt(Cap(browserMatch, line, 4))},
                       !.columnNumber = {parseInt(Cap(browserMatch, line, 5))}]}
          [] pattern = 3 ->
            {LogEntry(uuid, normalizeTimestamp(Cap(isoMatch, line, 1)),
                      normalizeLogLevel(Cap(isoMatch, line, 2)),
                      Cap(isoMatch, line, 3))}
          [] pattern = 4 ->
            {LogEntry(uuid, EpochDate(Cap(unixMatch, line, 1)),
                      normalizeLogLevel(Cap(unixMatch, line, 2)),
                      Cap(unixMatch, line, 3))}
          [] pattern = 5 ->
            {[LogEntry(uuid, Now, normalizeLogLevel(Cap(sourceMatch, line, 1)),
                       FirstTruthy(Group(sourceMatch, line, 2), Group(sourceMatch, line, 6)))
                EXCEPT !.source = {Cap(sourceMatch, line, 3)},
                       !.lineNumber = {parseInt(Cap(sourceMatch, line, 4))},
                       !.columnNumber = {parseInt(Cap(sourceMatch, line, 5))}]}
          [] pattern = 6 ->
            {LogEntry(uuid, Now, normalizeLogLevel(Cap(simpleMatch, line, 1)),
                      Cap(simpleMatch, line, 2))}
          [] pattern = 7 ->
            {LogEntry(uuid, TodayAt(Cap(timeMatch, line, 1)),
                      normalizeLogLevel(Cap(timeMatch, line, 2)),
                      Cap(timeMatch, line, 3))}
          [] pattern = 8 ->
            {LogEntry(uuid, Now, normalizeLogLevel(Cap(levelWordMatch, line, 1)),
                      Cap(levelWordMatch, line, 2))}
          [] pattern = 9 -> {LogEntry(uuid, Now, Log, line)}

\* The continuation patterns of isStackTraceLine, tested on the raw line
stackAtPattern == <<Plus(Space), Lit("a"), Lit("t"), Plus(Space)>>
stackFirefoxPattern == <<Plus(Space), Plus(WordChars), Lit("@")>>
stackFileLinePattern ==
    <<Plus(Space), DotStar, Colon, Plus(Digits), Colon, Plus(Digits)>>

isStackTraceLine(line) ==
    LET trimmed == Trim(line)
    IN  \/ StartsWith(trimmed, <<"a", "t", " ">>)
        \/ StartsWith(trimmed, <<" ", " ", " ", " ", "a", "t", " ">>)
        \/ Test(stackAtPattern, line)
        \/ Test(stackFirefoxPattern, line)
        \/ Test(stackFileLinePattern, line)

\* The lines of the texts the model parses
\* ''
BlankLine == <<>>
\* 'Error: boom'
BoomLine == <<"E","r","r","o","r",":"," ","b","o","o","m">>
\* '    at foo (file.js:1:1)'
AtLine ==
    <<" "," "," "," ","a","t"," ","f","o","o"," ","(","f","i","l","e",".","j","s",":","1",":",
      "1",")">>
\* 'hello world'
PlainLine == <<"h","e","l","l","o"," ","w","o","r","l","d">>
\* '  note'
IndentedLine == <<" "," ","n","o","t","e">>
\* '  WARN: low a.js:3:4'
IndentedLevelLine ==
    <<" "," ","W","A","R","N",":"," ","l","o","w"," ","a",".","j","s",":","3",":","4">>
\* '  up@app.js'
FirefoxLine == <<" "," ","u","p","@","a","p","p",".","j","s">>
\* '[12:34:56] WARNING: slow'
ChromeLine ==
    <<"[","1","2",":","3","4",":","5","6","]"," ","W","A","R","N","I","N","G",":"," ","s","l",
      "o","w">>
\* 'INFO started'
LevelWordLine == <<"I","N","F","O"," ","s","t","a","r","t","e","d">>
Lines == {BlankLine, BoomLine, AtLine, PlainLine, IndentedLine, IndentedLevelLine,
          FirefoxLine, ChromeLine, LevelWordLine}
MaxLines == 3
\* content.split('\n'): at least one line, none holding a "\n"
\* a stack trace of two lines with a blank line between them
SeparatedTrace == <<BoomLine, AtLine, BlankLine, AtLine>>
SplitTexts == (SeqsUpTo(Lines, MaxLines) \ {<<>>}) \cup {SeparatedTrace}

-----------------------------------------------------------------------------
(* ConsoleLogParser.parsePlainTextLine called on one line *)

\* The lines given to parsePlainTextLine
\* '[2024-01-16T12:34:56.789Z] ERROR: Something broke'
ScenarioLine ==
    <<"[","2","0","2","4","-","0","1","-","1","6","T","1","2",":","3","4",":","5","6",".","7",
      "8","9","Z","]"," ","E","R","R","O","R",":"," ","S","o","m","e","t","h","i","n","g"," ",
      "b","r","o","k","e">>
\* '[x] FOO: bar'
ChromeUnknownLine == <<"[","x","]"," ","F","O","O",":"," ","b","a","r">>
\* 'ERROR: Failed http://a.io/x.js:12:3'
BrowserLine ==
    <<"E","R","R","O","R",":"," ","F","a","i","l","e","d"," ","h","t","t","p",":","/","/","a",
      ".","i","o","/","x",".","j","s",":","1","2",":","3">>
\* 'FOO: m http://a.io/x.js:1:2'
BrowserUnknownLine ==
    <<"F","O","O",":"," ","m"," ","h","t","t","p",":","/","/","a",".","i","o","/","x",".","j",
      "s",":","1",":","2">>
\* '2024-01-16 12:34:56 WARN disk low'
IsoLine ==
    <<"2","0","2","4","-","0","1","-","1","6"," ","1","2",":","3","4",":","5","6"," ","W","A",
      "R","N"," ","d","i","s","k"," ","l","o","w">>
\* '2024-02-30T10:00:00Z INFO up'
IsoNoDateLine ==
    <<"2","0","2","4","-","0","2","-","3","0","T","1","0",":","0","0",":","0","0","Z"," ","I",
      "N","F","O"," ","u","p">>
\* '2024-02-29T23:59:59Z DEBUG x'
IsoSecondsLine ==
    <<"2","0","2","4","-","0","2","-","2","9","T","2","3",":","5","9",":","5","9","Z"," ","D",
      "E","B","U","G"," ","x">>
\* 'ERROR: boom at file.js:10:15'
SourceLine ==
    <<"E","R","R","O","R",":"," ","b","o","o","m"," ","a","t"," ","f","i","l","e",".","j","s",
      ":","1","0",":","1","5">>
\* 'FOO: boom at file.js:10:15'
SourceUnknownLine ==
    <<"F","O","O",":"," ","b","o","o","m"," ","a","t"," ","f","i","l","e",".","j","s",":","1",
      "0",":","1","5">>
\* 'WARN: low a.js:3:4'
SourceOrSimpleLine == <<"W","A","R","N",":"," ","l","o","w"," ","a",".","j","s",":","3",":","4">>
\* '[ERROR]: x'
BracketLevelLine == <<"[","E","R","R","O","R","]",":"," ","x">>
\* '12:34:56 ERROR bad'
TimeLine == <<"1","2",":","3","4",":","5","6"," ","E","R","R","O","R"," ","b","a","d">>
\* '12:34:56 FOO bad'
TimeUnknownLine == <<"1","2",":","3","4",":","5","6"," ","F","O","O"," ","b","a","d">>
\* '12:34:56,5 warn x'
TimeCommaLine == <<"1","2",":","3","4",":","5","6",",","5"," ","w","a","r","n"," ","x">>
\* '  '
SpacesLine == <<" "," ">>
\* '2024-01-16T12:34:56.789Z'
ScenarioTimestamp ==
    <<"2","0","2","4","-","0","1","-","1","6","T","1","2",":","3","4",":","5","6",".","7","8",
      "9","Z">>
\* 'Something broke'
SomethingBroke == <<"S","o","m","e","t","h","i","n","g"," ","b","r","o","k","e">>
\* 'rotated'
Rotated == <<"r","o","t","a","t","e","d">>
\* 'up'
UpMessage == <<"u","p">>

\* String.prototype.toUpperCase
UpperChar(c) ==
    IF c \in Range(LowerSeq)
    THEN UpperSeq[CHOOSE n \in 1..Len(LowerSeq) : LowerSeq[n] = c]
    ELSE c
ToUpper(s) == [n \in 1..Len(s) |-> UpperChar(s[n])]
\* the keys of levelMap, as normalizeLogLevel declares them
LevelMapKeys ==
    {Warning, Err, Fatal, Critical, Panic, Information, Inf, Dbg, Verbose, Trace, Notice,
     Emerg, Emergency, Alert, Crit}
\* '<TOKEN>: rotated', the token being a level or a key of levelMap, in lower
\* or upper case
LevelTokens == LogLevel \cup LevelMapKeys
TokenLine(token) == token \o <<":", " ">> \o Rotated
TokenLines == {TokenLine(t) : t \in LevelTokens} \cup {TokenLine(ToUpper(t)) : t \in LevelTokens}
\* '<digits> INFO up' and '<digits> FOO up', the digits numbering 9 to 14
UnixDigits ==
    {<<"1","2","3","4","5","6","7","8","9">>,
     <<"1","0","0","0","0","0","0","0","0","0">>,
     <<"1","7","0","5","4","0","1","2","3","4">>,
     <<"9","9","9","9","9","9","9","9","9","9">>,
     <<"1","0","0","0","0","0","0","0","0","0","0">>,
     <<"1","0","0","0","0","0","0","0","0","0","1">>,
     <<"0","0","0","0","0","0","0","0","0","0","1">>,
     <<"9","9","9","9","9","9","9","9","9","9","9">>,
     <<"1","7","0","5","4","0","1","2","3","4","5","6">>,
     <<"1","7","0","5","4","0","1","2","3","4","5","6","7">>,
     <<"0","0","0","1","7","0","5","4","0","1","2","3","4">>,
     <<"9","9","9","9","9","9","9","9","9","9","9","9","9">>,
     <<"1","2","3","4","5","6","7","8","9","0","1","2","3","4">>}
UnixLine(digits, level) == digits \o <<" ">> \o level \o <<" ">> \o UpMessage
UnixLines ==
    {UnixLine(d, level) : d \in UnixDigits, level \in {ToUpper(Info), <<"F", "O", "O">>}}
CascadeLines ==
    {ScenarioLine, ChromeUnknownLine, BrowserLine, BrowserUnknownLine, IsoLine, IsoNoDateLine,
     IsoSecondsLine, SourceLine, SourceUnknownLine, SourceOrSimpleLine, BracketLevelLine,
     TimeLine, TimeUnknownLine, TimeCommaLine, SpacesLine, BlankLine, BoomLine, PlainLine,
     IndentedLine, LevelWordLine, ChromeLine}
    \cup TokenLines \cup UnixLines
\* the values uuidv4() may return
Uuids == {1, 2}

\* parsePlainTextLine on the lines of the model, evaluated once per line
CascadeTable == [line \in CascadeLines |-> parsePlainTextLine(line, 0)]

PlInit ==
    /\ plLine \in CascadeLines
    /\ plOp = "called"
    /\ plResult = Absent

ParsePlainTextLine ==
    /\ plOp = "called"
    /\ \E uuid \in Uuids :
          plResult' = {[e EXCEPT !.id = uuid] : e \in CascadeTable[plLine]}
    /\ plOp' = "returned"
    /\ UNCHANGED <<plLine, plOthers>>

PlNext == ParsePlainTextLine

-----------------------------------------------------------------------------
(* ConsoleLogParser, the JSON side (src/unnamed/part_002) *)

\* The content of a log file: its text and, when the text is a JSON
\* document, the value JSON.parse returns for it (Absent: a SyntaxError)
KeyOrder == <<"metadata", "entries", "logs", "fileName", "level", "type",
              "severity", "message", "msg", "timestamp", "time">>
KeyChars(k) ==
    CASE k = "metadata" -> <<"m","e","t","a","d","a","t","a">>
      [] k = "entries" -> <<"e","n","t","r","i","e","s">>
      [] k = "logs" -> <<"l","o","g","s">>
      [] k = "fileName" -> <<"f","i","l","e","N","a","m","e">>
      [] k = "level" -> <<"l","e","v","e","l">>
      [] k = "type" -> <<"t","y","p","e">>
      [] k = "severity" -> <<"s","e","v","e","r","i","t","y">>
      [] k = "message" -> <<"m","e","s","s","a","g","e">>
      [] k = "msg" -> <<"m","s","g">>
      [] k = "timestamp" -> <<"t","i","m","e","s","t","a","m","p">>
      [] k = "time" -> <<"t","i","m","e">>
Quote == <<"\"">>
\* the text of a JSON document of the model (one-digit numbers, no escapes)
RECURSIVE Stringify(_)
Stringify(v) ==
    CASE v.t = "null" -> <<"n","u","l","l">>
      [] v.t = "num" -> <<CHOOSE d \in Digits : DigitValue(d) = v.n>>
      [] v.t = "str" -> Quote \o v.s \o Quote
      [] v.t = "arr" ->
            <<"[">> \o Join([n \in 1..Len(v.a) |-> Stringify(v.a[n])], <<",">>) \o <<"]">>
      [] v.t = "obj" ->
            LET Own(k) == k \in DOMAIN v.o
                keys == SelectSeq(KeyOrder, Own)
                Member(k) == Quote \o KeyChars(k) \o Quote \o <<":">> \o Stringify(v.o[k])
            IN  <<"{">> \o Join([n \in 1..Len(keys) |-> Member(keys[n])], <<",">>) \o <<"}">>
JsonContent(v) == [text |-> Stringify(v), json |-> {v}]
TextContent(lines) == [text |-> Join(lines, Newline), json |-> Absent]

\* String.prototype.split on "\n"
RECURSIVE SplitFrom(_, _)
SplitFrom(text, line) ==
    IF text = <<>> THEN <<line>>
    ELSE IF Head(text) = "\n" THEN <<line>> \o SplitFrom(Tail(text), <<>>)
    ELSE SplitFrom(Tail(text), Append(line, Head(text)))
Split(text) == SplitFrom(text, <<>>)

\* What a call gives: a ConsoleLogFile, or an Error with its message
Returned(file) == [ok |-> TRUE, file |-> file]
Thrown(message) == [ok |-> FALSE, error |-> message]
\* a ConsoleLogFile the parser built, and a parsed document returned as it is
Built(entries) ==
    [kind |-> "built", totalEntries |-> Len(entries), entries |-> entries]
AsParsed(parsed) == [kind |-> "parsed", value |-> parsed]

\* a.x || a.y || a.z || fallback
RECURSIVE FirstTruthyProp(_, _, _)
FirstTruthyProp(log, keys, fallback) ==
    IF keys = <<>> THEN fallback
    ELSE IF Truthy(Prop(log, Head(keys))) THEN Prop(log, Head(keys))
    ELSE FirstTruthyProp(log, Tail(keys), fallback)
\* a string property as the entry holds it; another value stays as parsed
Held(v) == IF v.t = "str" THEN v.s ELSE v
OptHeld(v) == IF v.t = "undefined" THEN Absent ELSE {Held(v)}
\* '[object Object]'
ObjectObject == <<"[","o","b","j","e","c","t"," ","O","b","j","e","c","t","]">>

\* the entry logs.map builds from one element; uuid is what uuidv4() returns
MapLog(log, uuid) ==
    [id |-> IF Truthy(Prop(log, "id")) THEN Held(Prop(log, "id")) ELSE uuid,
     timestamp |-> LET given == FirstTruthyProp(log, <<"timestamp", "time", "timeStamp">>,
                                                Undefined)
                   IN  IF given.t = "undefined" THEN Now ELSE Held(given),
     level |-> normalizeLogLevel(
                   FirstTruthyProp(log, <<"level", "type", "severity">>, JStr(Log)).s),
     message |-> Held(FirstTruthyProp(log, <<"message", "msg", "text">>, JStr(ObjectObject))),
     source |-> OptHeld(FirstTruthyProp(log, <<"source", "file", "filename">>, Undefined)),
     lineNumber |-> OptHeld(FirstTruthyProp(log, <<"lineNumber", "line", "lineno">>, Undefined)),
     columnNumber |->
         OptHeld(FirstTruthyProp(log, <<"columnNumber", "column", "colno">>, Undefined)),
     stackTrace |-> OptHeld(FirstTruthyProp(log, <<"stackTrace", "stack", "trace">>, Undefined)),
     args |-> OptHeld(FirstTruthyProp(log, <<"args", "arguments", "data">>, Undefined)),
     url |-> OptHeld(FirstTruthyProp(log, <<"url", "uri", "location">>, Undefined)),
     category |-> OptHeld(FirstTruthyProp(log, <<"category", "tag">>, Undefined))]

TypeErrorMessage == "Failed to parse JSON: <message of the TypeError>"
SyntaxErrorMessage == "Failed to parse JSON: <message of the SyntaxError>"
UnrecognizedMessage == "Failed to parse JSON: Unrecognized JSON format"

\* reading a property of a null element, or calling toLowerCase on a level
\* that is no string, raises a TypeError
MapLogThrows(log) ==
    \/ Nullish(log)
    \/ FirstTruthyProp(log, <<"level", "type", "severity">>, JStr(Log)).t # "str"

parseJSONArray(logs) ==
    IF \E n \in 1..Len(logs) : MapLogThrows(logs[n])
    THEN Thrown(TypeErrorMessage)
    ELSE Returned(Built([n \in 1..Len(logs) |-> MapLog(logs[n], n)]))

\* with the {metadata, entries} document normalised like a {logs} document
parseJSON_rewrapping(content) ==
    IF content.json = Absent THEN Thrown(SyntaxErrorMessage)
    ELSE LET parsed == Val(content.json)
         IN  IF Nullish(parsed) THEN Thrown(TypeErrorMessage)
             ELSE IF IsArray(parsed) THEN parseJSONArray(parsed.a)
             ELSE IF Truthy(Prop(parsed, "logs")) /\ IsArray(Prop(parsed, "logs"))
             THEN parseJSONArray(Prop(parsed, "logs").a)
             ELSE IF Truthy(Prop(parsed, "metadata")) /\ IsArray(Prop(parsed, "entries"))
             THEN parseJSONArray(Prop(parsed, "entries").a)
             ELSE Thrown(UnrecognizedMessage)

parseJSON(content) ==
    IF content.json = Absent THEN Thrown(SyntaxErrorMessage)
    ELSE LET parsed == Val(content.json)
         IN  IF Nullish(parsed) THEN Thrown(TypeErrorMessage)
             ELSE IF Truthy(Prop(parsed, "metadata")) /\ Truthy(Prop(parsed, "entries"))
             THEN Returned(AsParsed(parsed))
             ELSE IF IsArray(parsed) THEN parseJSONArray(parsed.a)
             ELSE IF Truthy(Prop(parsed, "logs")) /\ IsArray(Prop(parsed, "logs"))
             THEN parseJSONArray(Prop(parsed, "logs").a)
             ELSE Thrown(UnrecognizedMessage)

\* parseFile tries JSON first on a text that starts with "{" or "["
TriesJSON(content) ==
    \/ StartsWith(Trim(content.text), <<"{">>)
    \/ StartsWith(Trim(content.text), <<"[">>)

-----------------------------------------------------------------------------
(* The log files of the model *)

\* the elements of the arrays of the model's JSON documents
WarningLog == JObj([level |-> JStr(Warning), message |-> JStr(<<"m">>)])
ErrTypeLog == JObj([type |-> JStr(<<"E", "R", "R">>)])
NoticeLog == JObj([severity |-> JStr(Notice)])
MessageLog == JObj([message |-> JStr(<<"m">>)])
InfoLog == JObj([level |-> JStr(Info)])
LogObjects == {WarningLog, ErrTypeLog, NoticeLog, MessageLog, InfoLog}
MaxLogs == 2
Metadata == JObj([fileName |-> JStr(<<"a">>)])
\* a {metadata, entries} document that has a logs array as well
ShapedWithLogs ==
    JObj([metadata |-> Metadata, entries |-> JArr(<<WarningLog>>), logs |-> JArr(<<InfoLog>>)])
\* '[1] constructor: x'
ConstructorLine == <<"[","1","]"," ","c","o","n","s","t","r","u","c","t","o","r",":"," ","x">>
\* '{"level": "warn"'
BrokenJsonLine == <<"{","\"","l","e","v","e","l","\"",":"," ","\"","w","a","r","n","\"">>
\* Records that give a logical field under several of its names, and with
\* values that are falsy in JavaScript (the empty string, 0)
ObjOf(pairs) ==
    LET present == {n \in 1..Len(pairs) : pairs[n][2] # Absent}
    IN  JObj([k \in {pairs[n][1] : n \in present} |->
                Val(pairs[CHOOSE n \in present : pairs[n][1] = k][2])])
AliasLog(level, type, severity, message, msg, timestamp, time) ==
    ObjOf(<<<<"level", level>>, <<"type", type>>, <<"severity", severity>>,
            <<"message", message>>, <<"msg", msg>>,
            <<"timestamp", timestamp>>, <<"time", time>>>>)
AliasLogs ==
    {AliasLog(level, type, severity, message, msg, timestamp, time) :
        level \in {Absent, {JStr(<<>>)}, {JStr(Info)}, {JStr(Warning)}},
        type \in {Absent, {JStr(Debug)}},
        severity \in {Absent, {JStr(ErrorLevel)}},
        message \in {Absent, {JStr(<<>>)}, {JNum(0)}, {JStr(<<"m">>)}},
        msg \in {Absent, {JStr(<<"a", "l", "t">>)}},
        timestamp \in {Absent, {JStr(<<>>)}, {JNum(0)}, {JStr(<<"t", "1">>)}},
        time \in {Absent, {JStr(<<"t", "2">>)}}}
AliasDocuments == {JArr(<<log>>) : log \in AliasLogs}

\* the three accepted shapes (an array, {logs}, {metadata, entries}), arrays
\* with a null element, documents of no accepted shape, and texts
JsonDocuments ==
    {JArr(logs) : logs \in SeqsUpTo(LogObjects \cup {JNull}, MaxLogs)}
    \cup {JObj([logs |-> JArr(logs)]) : logs \in SeqsUpTo(LogObjects \cup {JNull}, MaxLogs)}
    \cup {JObj([metadata |-> Metadata, entries |-> JArr(logs)]) :
            logs \in SeqsUpTo(LogObjects, MaxLogs)}
    \cup {JNull, WarningLog, JObj([logs |-> JNull]), ShapedWithLogs}
LogTexts ==
    {<<BoomLine, AtLine>>, <<PlainLine>>, <<ChromeLine>>, <<ConstructorLine>>,
     <<BrokenJsonLine, LevelWordLine>>}
Contents ==
    {JsonContent(v) : v \in JsonDocuments \cup AliasDocuments}
    \cup {TextContent(lines) : lines \in LogTexts}

\* the lines of the contents that parseFile parses as plain text
FallbackLines ==
    UNION {Range(Split(c.text)) : c \in {d \in Contents : ~(TriesJSON(d) /\ parseJSON(d).ok)}}

-----------------------------------------------------------------------------
(* ConsoleLogParser.parsePlainText and parseFile (src/unnamed/part_002) *)

\* isStackTraceLine and parsePlainTextLine(line.trim()) on the lines of the
\* model, evaluated once per line rather than at every step
LineTable ==
    [line \in Lines \cup FallbackLines |->
        [isStackTraceLine |-> isStackTraceLine(line),
         entry |-> parsePlainTextLine(Trim(line), 0)]]
isStackTrace(line) == LineTable[line].isStackTraceLine
parseTrimmed(line, uuid) == {[e EXCEPT !.id = uuid] : e \in LineTable[line].entry}

\* The state of parsePlainText's loop, and the body of one iteration on a line
LoopState(entries, current, stack) ==
    [entries |-> entries, currentEntry |-> current, stackTraceLines |-> stack]
WithStackTrace(entry, stack) ==
    [entry EXCEPT !.stackTrace = {Join(stack, Newline)}]

\* a variant that buffers the line as it is, not trimmed
AccumulateStack_untrimmed(st, line) ==
    [st EXCEPT !.stackTraceLines = Append(@, line)]

\* lines 73-77: the line joins the pending entry's stack-trace buffer
AccumulateStack(st, line) ==
    [st EXCEPT !.stackTraceLines = Append(@, Trim(line))]

\* a variant that starts the new entry without emitting the pending one
ParseLine_overwrites(st, line, uuid) ==
    LET entry == parseTrimmed(line, uuid)
    IN  IF entry # Absent THEN LoopState(st.entries, entry, <<>>) ELSE st

\* lines 79-103: finalize an entry that has a stack trace, then parse the line
ParseLine(st, line, uuid) ==
    LET hasStack == st.currentEntry # Absent /\ st.stackTraceLines # <<>>
        s1 == IF hasStack
              THEN LoopState(Append(st.entries,
                                    WithStackTrace(Val(st.currentEntry), st.stackTraceLines)),
                             Absent, <<>>)
              ELSE st
        entry == parseTrimmed(line, uuid)
    IN  IF entry # Absent THEN
            IF s1.currentEntry # Absent
            THEN LoopState(Append(s1.entries,
                                  IF s1.stackTraceLines # <<>>
                                  THEN WithStackTrace(Val(s1.currentEntry), s1.stackTraceLines)
                                  ELSE Val(s1.currentEntry)),
                           entry, <<>>)
            ELSE LoopState(s1.entries, entry, s1.stackTraceLines)
        ELSE IF s1.currentEntry # Absent /\ Trim(line) # <<>>
        THEN [s1 EXCEPT !.currentEntry =
                 {[Val(@) EXCEPT !.message = @ \o Newline \o Trim(line)]}]
        ELSE s1

LoopBody(st, line, uuid) ==
    IF isStackTrace(line) /\ st.currentEntry # Absent
    THEN AccumulateStack(st, line)
    ELSE ParseLine(st, line, uuid)

\* a variant without the final flush
FlushLast_missing(st) == st.entries

\* lines 106-112: the entry still pending after the last line
FlushLast(st) ==
    IF st.currentEntry # Absent
    THEN Append(st.entries,
                IF st.stackTraceLines # <<>>
                THEN WithStackTrace(Val(st.currentEntry), st.stackTraceLines)
                ELSE Val(st.currentEntry))
    ELSE st.entries

\* parsePlainText as a process: one step per iteration of its loop, then
\* the final flush. ptI is i + 1; uuidv4() returns a value never returned
\* before, which the model names by the number of the line being parsed;
\* started records the ids of the entries started so far.
Loop == LoopState(ptEntries, currentEntry, stackTraceLines)

PtInit ==
    /\ ptLines \in SplitTexts
    /\ ptI = 1
    /\ ptEntries = <<>>
    /\ currentEntry = Absent
    /\ stackTraceLines = <<>>
    /\ started = <<>>
    /\ ptPc = "loop"

AccumulateStackTrace ==
    /\ ptPc = "loop"
    /\ ptI <= Len(ptLines)
    /\ isStackTrace(ptLines[ptI]) /\ currentEntry # Absent
    /\ LET st == AccumulateStack(Loop, ptLines[ptI])
       IN  /\ ptEntries' = st.entries
           /\ currentEntry' = st.currentEntry
           /\ stackTraceLines' = st.stackTraceLines
    /\ ptI' = ptI + 1
    /\ UNCHANGED <<ptLines, started, ptPc, ptOthers>>

ParseNextLine ==
    /\ ptPc = "loop"
    /\ ptI <= Len(ptLines)
    /\ ~(isStackTrace(ptLines[ptI]) /\ currentEntry # Absent)
    /\ LET st == ParseLine(Loop, ptLines[ptI], ptI)
       IN  /\ ptEntries' = st.entries
           /\ currentEntry' = st.currentEntry
           /\ stackTraceLines' = st.stackTraceLines
    /\ started' = IF parseTrimmed(ptLines[ptI], ptI) # Absent
                  THEN Append(started, ptI)
                  ELSE started
    /\ ptI' = ptI + 1
    /\ UNCHANGED <<ptLines, ptPc, ptOthers>>

FinalFlush ==
    /\ ptPc = "loop"
    /\ ptI > Len(ptLines)
    /\ ptEntries' = FlushLast(Loop)
    /\ ptPc' = "done"
    /\ UNCHANGED <<ptLines, ptI, currentEntry, stackTraceLines, started, ptOthers>>

PtNext == AccumulateStackTrace \/ ParseNextLine \/ FinalFlush

\* the whole of parsePlainText as a function of the lines
RECURSIVE RunLoop(_, _, _)
RunLoop(st, lines, n) ==
    IF n > Len(lines) THEN st
    ELSE RunLoop(LoopBody(st, lines[n], n), lines, n + 1)
parsePlainText(lines) == FlushLast(RunLoop(LoopState(<<>>, Absent, <<>>), lines, 1))

\* with no catch around the call of parseJSON: what the call threw is what
\* parseFile gives
parseFile_uncaught(content) ==
    IF TriesJSON(content)
    THEN IF parseJSON(content).ok THEN parseJSON(content).file ELSE parseJSON(content)
    ELSE Built(parsePlainText(Split(content.text)))

\* parseFile returns what parseJSON returns when it is tried and succeeds,
\* and parses the text as plain text otherwise
parseFile(content) ==
    IF TriesJSON(content) /\ parseJSON(content).ok
    THEN parseJSON(content).file
    ELSE Built(parsePlainText(Split(content.text)))

\* The entries of a returned file as the analyser reads them. An entry of a
\* document returned as parsed has the level the document gave it; without
\* one, entry.level is undefined, which is no string.
UndefinedLevel == <<"undefined">>
ReadEntry(v) ==
    [level |-> IF Prop(v, "level").t = "str" THEN Prop(v, "level").s ELSE UndefinedLevel,
     stackTrace |-> OptHeld(Prop(v, "stackTrace"))]
EntriesOf(file) ==
    IF file.kind = "built" THEN file.entries
    ELSE LET parsedEntries == Prop(file.value, "entries").a
         IN  [n \in 1..Len(parsedEntries) |-> ReadEntry(parsedEntries[n])]

-----------------------------------------------------------------------------
(* ConsoleLogAnalyzer.getStatistics (src/src/utils/consoleLogAnalyzer.ts) *)

Increment(count) == IF count.t = "num" THEN JNum(count.n + 1) ELSE NaN
\* levelCounts[level]++: a level that is no key of the record becomes one
CountLevel(counts, level) ==
    IF level \in DOMAIN counts
    THEN [counts EXCEPT ![level] = Increment(@)]
    ELSE counts @@ (level :> NaN)
RECURSIVE CountLevels(_, _)
CountLevels(counts, entries) ==
    IF entries = <<>> THEN counts
    ELSE CountLevels(CountLevel(counts, Head(entries).level), Tail(entries))
HasStackTrace(entry) == entry.stackTrace # Absent /\ Val(entry.stackTrace) # <<>>
\* the parts of the result that the level counting decides
getStatistics(entries) ==
    [totalEntries |-> Len(entries),
     levelCounts |-> CountLevels([level \in LogLevel |-> JNum(0)], entries),
     entriesWithStackTrace |-> Len(SelectSeq(entries, HasStackTrace))]

-----------------------------------------------------------------------------
(* A log file parsed by parseFile, then its statistics *)

LogInit ==
    /\ logContent \in Contents
    /\ logOp = "start"
    /\ logFile = Absent
    /\ logStats = Absent

\* parseFile returns what parseJSON returned
ParseFileAsJSON ==
    /\ logOp = "start"
    /\ TriesJSON(logContent) /\ parseJSON(logContent).ok
    /\ logFile' = {parseFile(logContent)}
    /\ logOp' = "parsedJSON"
    /\ UNCHANGED <<logContent, logStats, logOthers>>

\* parseFile returns what parsePlainText returned
ParseFileAsText ==
    /\ logOp = "start"
    /\ ~(TriesJSON(logContent) /\ parseJSON(logContent).ok)
    /\ logFile' = {parseFile(logContent)}
    /\ logOp' = "parsedText"
    /\ UNCHANGED <<logContent, logStats, logOthers>>

\* ConsoleLogStatistics shows the statistics of the loaded entries
GetStatistics ==
    /\ logOp \in {"parsedJSON", "parsedText"}
    /\ logStats' = {getStatistics(EntriesOf(Val(logFile)))}
    /\ logOp' = "statistics"
    /\ UNCHANGED <<logContent, logFile, logOthers>>

LogNext == ParseFileAsJSON \/ ParseFileAsText \/ GetStatistics

-----------------------------------------------------------------------------
(* ConsoleLogAnalyzer's queries (src/src/utils/consoleLogAnalyzer.ts) and *)
(* the filteredEntries of useConsoleLogData                               *)

\* JavaScript truthiness of a string that may be null or undefined
TruthyText(opt) == opt # Absent /\ opt # {<<>>}

filterByLevel(entries, levels) ==
    LET Included(entry) == \E k \in 1..Len(levels) : levels[k] = entry.level
    IN  SelectSeq(entries, Included)

\* text?.toLowerCase().includes(lowerTerm): undefined when there is no text
OptIncludes(opt, lowerTerm) == opt # Absent /\ Includes(ToLower(Val(opt)), lowerTerm)

ConsoleLogAnalyzer_searchEntries(entries, term) ==
    LET lowerTerm == ToLower(term)
        Found(entry) ==
            \/ Includes(ToLower(entry.message), lowerTerm)
            \/ OptIncludes(entry.source, lowerTerm)
            \/ OptIncludes(entry.url, lowerTerm)
            \/ OptIncludes(entry.stackTrace, lowerTerm)
    IN  SelectSeq(entries, Found)

\* with the entries of unparseable timestamp left out
filterByTimeRange_dropsUnparseable(entries, start, end) ==
    LET Kept(entry) ==
            LET timestamp == getTime(entry.timestamp)
            IN  IF timestamp = NaN THEN FALSE
                ELSE IF TruthyText(start) /\ LessThan(timestamp, getTime(Val(start)))
                THEN FALSE
                ELSE IF TruthyText(end) /\ LessThan(getTime(Val(end)), timestamp)
                THEN FALSE
                ELSE TRUE
    IN  SelectSeq(entries, Kept)

filterByTimeRange(entries, start, end) ==
    LET Kept(entry) ==
            LET timestamp == getTime(entry.timestamp)
            IN  IF timestamp = NaN THEN TRUE
                ELSE IF TruthyText(start) /\ LessThan(timestamp, getTime(Val(start)))
                THEN FALSE
                ELSE IF TruthyText(end) /\ LessThan(getTime(Val(end)), timestamp)
                THEN FALSE
                ELSE TRUE
    IN  SelectSeq(entries, Kept)

\* String.prototype.substring(0, n)
Substring(s, n) == SubSeq(s, 1, IF Len(s) < n THEN Len(s) ELSE n)
\* Array.prototype.slice(0, n) for n >= 0
Slice(a, n) == SubSeq(a, 1, IF Len(a) < n THEN Len(a) ELSE n)

\* Array.prototype.sort with (a, b) => b.count - a.count: by count, the larger
\* first; the sort is stable, so equal counts keep their order
RECURSIVE InsertByCount(_, _)
InsertByCount(sorted, item) ==
    IF sorted = <<>> THEN <<item>>
    ELSE IF Head(sorted).count >= item.count
         THEN <<Head(sorted)>> \o InsertByCount(Tail(sorted), item)
         ELSE <<item>> \o sorted
RECURSIVE SortByCount(_)
SortByCount(items) ==
    IF items = <<>> THEN <<>>
    ELSE InsertByCount(SortByCount(SubSeq(items, 1, Len(items) - 1)), items[Len(items)])

\* the length messages are cut to for grouping, and the default limit
GroupingLength == 100
DefaultLimit == 10

\* messageCounts after errorEntries.forEach
RECURSIVE CountMessages(_, _)
CountMessages(messageCounts, errorEntries) ==
    IF errorEntries = <<>> THEN messageCounts
    ELSE LET msg == Substring(Head(errorEntries).message, GroupingLength)
             count == IF MapHas(messageCounts, msg) THEN MapGet(messageCounts, msg) ELSE 0
         IN  CountMessages(MapSet(messageCounts, msg, count + 1), Tail(errorEntries))

\* with the entries of every level counted
getTopErrors_everyLevel(entries, limit) ==
    LET messageCounts == CountMessages(<<>>, entries)
        pairs == [k \in 1..Len(messageCounts) |->
                    [message |-> messageCounts[k][1], count |-> messageCounts[k][2]]]
    IN  Slice(SortByCount(pairs), IF limit = Absent THEN DefaultLimit ELSE Val(limit))

\* limit is absent when the caller leaves it to the default
getTopErrors(entries, limit) ==
    LET IsError(e) == e.level = ErrorLevel
        errorEntries == SelectSeq(entries, IsError)
        messageCounts == CountMessages(<<>>, errorEntries)
        pairs == [k \in 1..Len(messageCounts) |->
                    [message |-> messageCounts[k][1], count |-> messageCounts[k][2]]]
    IN  Slice(SortByCount(pairs), IF limit = Absent THEN DefaultLimit ELSE Val(limit))

\* a variant that puts the entry in front of its bucket
RECURSIVE groupLevels_newestFirst(_, _)
groupLevels_newestFirst(grouped, entries) ==
    IF entries = <<>> THEN grouped
    ELSE LET entry == Head(entries)
             existing == IF MapHas(grouped, entry.level) THEN MapGet(grouped, entry.level)
                         ELSE <<>>
         IN  groupLevels_newestFirst(MapSet(grouped, entry.level, <<entry>> \o existing),
                                     Tail(entries))

RECURSIVE groupLevels(_, _)
groupLevels(grouped, entries) ==
    IF entries = <<>> THEN grouped
    ELSE LET entry == Head(entries)
             existing == IF MapHas(grouped, entry.level) THEN MapGet(grouped, entry.level)
                         ELSE <<>>
         IN  groupLevels(MapSet(grouped, entry.level, Append(existing, entry)), Tail(entries))
groupByLevel(entries) == groupLevels(<<>>, entries)

Unknown == <<"U", "n", "k", "n", "o", "w", "n">>
RECURSIVE groupSources(_, _)
groupSources(grouped, entries) ==
    IF entries = <<>> THEN grouped
    ELSE LET entry == Head(entries)
             source == IF TruthyText(entry.source) THEN Val(entry.source) ELSE Unknown
             existing == IF MapHas(grouped, source) THEN MapGet(grouped, source) ELSE <<>>
         IN  groupSources(MapSet(grouped, source, Append(existing, entry)), Tail(entries))
groupBySource(entries) == groupSources(<<>>, entries)

\* Date.prototype.toISOString of a time value is left symbolic
toISOString(time) == [kind |-> "iso", time |-> time]
RECURSIVE Earliest(_)
Earliest(times) ==
    IF Len(times) = 1 THEN times[1]
    ELSE LET rest == Earliest(Tail(times))
         IN  IF LessThan(rest, Head(times)) THEN rest ELSE Head(times)
RECURSIVE Latest(_)
Latest(times) ==
    IF Len(times) = 1 THEN times[1]
    ELSE LET rest == Latest(Tail(times))
         IN  IF LessThan(Head(times), rest) THEN rest ELSE Head(times)
\* null is Absent
getTimeRange(entries) ==
    IF Len(entries) = 0 THEN Absent
    ELSE LET IsTime(t) == t # NaN
             timestamps == SelectSeq([k \in 1..Len(entries) |-> getTime(entries[k].timestamp)],
                                     IsTime)
         IN  IF Len(timestamps) = 0 THEN Absent
             ELSE {[start |-> toISOString(Earliest(timestamps)),
                    end |-> toISOString(Latest(timestamps))]}

\* sourceCounts after entries.forEach, in the order the sources were first met
RECURSIVE CountSources(_, _)
CountSources(sourceCounts, entries) ==
    IF entries = <<>> THEN sourceCounts
    ELSE LET entry == Head(entries)
         IN  IF TruthyText(entry.source)
             THEN LET source == Val(entry.source)
                      count == IF MapHas(sourceCounts, source)
                               THEN MapGet(sourceCounts, source) ELSE 0
                  IN  CountSources(MapSet(sourceCounts, source, count + 1), Tail(entries))
             ELSE CountSources(sourceCounts, Tail(entries))
topSources(entries) ==
    LET sourceCounts == CountSources(<<>>, entries)
        pairs == [k \in 1..Len(sourceCounts) |->
                    [source |-> sourceCounts[k][1], count |-> sourceCounts[k][2]]]
    IN  Slice(SortByCount(pairs), DefaultLimit)
\* the whole record getStatistics returns
statisticsRecord(entries) ==
    [totalEntries |-> getStatistics(entries).totalEntries,
     levelCounts |-> getStatistics(entries).levelCounts,
     sourceCounts |-> topSources(entries),
     entriesWithStackTrace |-> getStatistics(entries).entriesWithStackTrace,
     timeRange |-> getTimeRange(entries),
     topErrors |-> getTopErrors(entries, Absent)]

\* ConsoleFilterOptions.levels: the keys in the order Object.entries gives them
LevelKeys == <<Log, Info, Warn, ErrorLevel, Debug, Trace, Verbose>>

\* useConsoleLogData's filteredEntries once a file is loaded; entries is
\* [...logData.entries]
filteredLogEntries(entries, filters) ==
    LET Enabled(level) == filters.levels[level]
        enabledLevels == SelectSeq(LevelKeys, Enabled)
        byLevel == filterByLevel(entries, enabledLevels)
        bySearch == IF filters.searchTerm # <<>>
                    THEN ConsoleLogAnalyzer_searchEntries(byLevel, filters.searchTerm)
                    ELSE byLevel
    IN  filterByTimeRange(bySearch, filters.timeRange.start, filters.timeRange.end)

-----------------------------------------------------------------------------
(* HarAnalyzer.getPerformanceMetrics and getMimeTypeBreakdown (part_000)  *)

RECURSIVE SumOf(_)
SumOf(numbers) == IF numbers = <<>> THEN 0 ELSE Head(numbers) + SumOf(Tail(numbers))
\* acc[key] = (acc[key] || 0) + 1 over the keys, acc being a record
RECURSIVE Tally(_, _)
Tally(acc, keys) ==
    IF keys = <<>> THEN acc
    ELSE LET key == Head(keys)
         IN  Tally(IF key \in DOMAIN acc THEN [acc EXCEPT ![key] = @ + 1]
                   ELSE acc @@ (key :> 1),
                   Tail(keys))
\* a quotient that need not be an integer
Quotient(a, b) == [dividend |-> a, divisor |-> b]
getPerformanceMetrics(entries) ==
    LET totalRequests == Len(entries)
        totalSize == SumOf([k \in 1..Len(entries) |-> entries[k].bodySize])
        totalTime == SumOf([k \in 1..Len(entries) |-> entries[k].time])
        statusCounts == Tally(<<>>, [k \in 1..Len(entries) |->
                                       (entries[k].status \div 100) * 100])
        avgTime == IF totalRequests > 0 THEN Quotient(totalTime, totalRequests)
                   ELSE Quotient(0, 1)
    IN  [totalRequests |-> totalRequests, totalSize |-> totalSize, totalTime |-> totalTime,
         avgTime |-> avgTime, statusCounts |-> statusCounts]
getMimeTypeBreakdown(entries) ==
    Tally(<<>>, [k \in 1..Len(entries) |-> entries[k].mimeType])

-----------------------------------------------------------------------------
(* Queries on a loaded file *)

\* '2024-02-29T23:59:59Z'
T1 == <<"2","0","2","4","-","0","2","-","2","9","T","2","3",":","5","9",":","5","9","Z">>
\* '2024-03-01T00:00:00Z'
T2 == <<"2","0","2","4","-","0","3","-","0","1","T","0","0",":","0","0",":","0","0","Z">>
\* '2024-03-01T00:00:01Z'
T3 == <<"2","0","2","4","-","0","3","-","0","1","T","0","0",":","0","0",":","0","1","Z">>
\* 'n/a'
NotADate == <<"n","/","a">>
Timestamps == {T1, T2, T3, <<>>, NotADate}
\* a bound of the time range: null, the empty string of a cleared input, a time
Bounds == {Absent, {<<>>}, {T1}, {T2}, {T3}}

\* collections that vary the timestamp
TimeLists ==
    {[n \in 1..Len(s) |-> LogEntry(n, s[n], Info, <<"m">>)] :
        s \in SeqsUpTo(Timestamps, MaxEntries)}
\* 'Timeout X'
TimeoutX == <<"T","i","m","e","o","u","t"," ","X">>
\* 'Timeout Y'
TimeoutY == <<"T","i","m","e","o","u","t"," ","Y">>
\* two messages longer than the grouping length that differ after it
LongPrefix == [k \in 1..GroupingLength |-> "a"]
LongA == LongPrefix \o <<"1">>
LongB == LongPrefix \o <<"2">>
\* collections that vary the level and the message
ErrorKinds ==
    {<<ErrorLevel, TimeoutX>>, <<ErrorLevel, TimeoutY>>, <<Warn, TimeoutX>>,
     <<ErrorLevel, LongA>>, <<ErrorLevel, LongB>>}
ErrorLists ==
    {[n \in 1..Len(s) |-> LogEntry(n, T1, s[n][1], s[n][2])] :
        s \in SeqsUpTo(ErrorKinds, MaxEntries)}
\* collections that vary the source and the stack trace
SourceKinds ==
    {<<Absent, Absent>>, <<{<<"a", ".", "j", "s">>}, Absent>>,
     <<{<<"b", ".", "j", "s">>}, {<<"a", "t", " ", "m">>}>>, <<{<<>>}, Absent>>}
SourceLists ==
    {[n \in 1..Len(s) |->
        [LogEntry(n, T1, Info, <<"m">>) EXCEPT !.source = s[n][1], !.stackTrace = s[n][2]]] :
        s \in SeqsUpTo(SourceKinds, MaxEntries)}
LogLists == TimeLists \cup ErrorLists \cup SourceLists
\* the levels given to filterByLevel
LevelLists == {<<>>, <<ErrorLevel>>, <<Info, Warn>>}

\* HAR entries: page reference, status, content type, body size, time
HarKinds ==
    {<<{"p1"}, 200, "text/html", 10, 5>>, <<Absent, 404, "text/html", 0, 7>>,
     <<{"p9"}, 0, "image/png", -1, 3>>}
HarLists ==
    {[n \in 1..Len(s) |->
        [id |-> n, pageref |-> s[n][1], status |-> s[n][2], timings |-> DefaultTimings,
         url |-> <<"/", "a", "p", "i">>, method |-> <<"G", "E", "T">>,
         statusText |-> StatusText(s[n][2]), mimeType |-> s[n][3], bodySize |-> s[n][4],
         time |-> s[n][5]]] :
        s \in SeqsUpTo(HarKinds, MaxEntries)}
QueryCodes == {<<>>, <<200>>, <<0, 400>>, AllClasses}
\* the limit given to getTopErrors, absent for the default
Limits == {Absent, {0}, {1}, {2}}

\* the filter panel: every level ticked, only error ticked, none ticked
LevelChoices ==
    {[level \in LogLevel |-> TRUE], [level \in LogLevel |-> level = ErrorLevel],
     [level \in LogLevel |-> FALSE]}
LogSearchTerms == {<<>>, <<"M">>}
LogFilters ==
    [levels : LevelChoices, searchTerm : LogSearchTerms,
     timeRange : [start : Bounds, end : Bounds]]

\* the entries of an array, and the array of some entries
Deref(array) == [k \in 1..Len(array) |-> qEntries[array[k]]]
Loaded == Deref(qArrays[1])
RefsOf(entries) == [k \in 1..Len(entries) |-> entries[k].id]
\* the arrays after a query has built a new one, in place of the filtered one
NewArray_inPlace(array) == [qArrays EXCEPT ![1] = array]

\* the arrays after a query has built a new one
NewArray(array) == Append(qArrays, array)
\* the arrays after a query has built a Map of new arrays, and that Map with
\* each array given by its place among the arrays
NewArrays(grouped) == qArrays \o [k \in 1..Len(grouped) |-> RefsOf(grouped[k][2])]
MapOfArrays(grouped) == [k \in 1..Len(grouped) |-> <<grouped[k][1], Len(qArrays) + k>>]

QInit ==
    /\ \/ qFile = "log" /\ qEntries \in LogLists
       \/ qFile = "har" /\ qEntries \in HarLists
    /\ qArrays = <<[n \in 1..Len(qEntries) |-> n]>>
    /\ qOp = "loaded"
    /\ qArgs = <<>>
    /\ qResult = <<>>

FilterByTimeRange ==
    /\ qFile = "log" /\ qOp = "loaded"
    /\ \E start \in Bounds, end \in Bounds :
          /\ qArrays' = NewArray(RefsOf(filterByTimeRange(Loaded, start, end)))
          /\ qArgs' = [start |-> start, end |-> end]
    /\ qOp' = "filterByTimeRange"
    /\ qResult' = [array |-> 2]
    /\ UNCHANGED <<qFile, qEntries, qOthers>>

FilteredLogEntries ==
    /\ qFile = "log" /\ qOp = "loaded"
    /\ \E filters \in LogFilters :
          /\ qArrays' = NewArray(RefsOf(filteredLogEntries(Loaded, filters)))
          /\ qArgs' = filters
    /\ qOp' = "filteredEntries"
    /\ qResult' = [array |-> 2]
    /\ UNCHANGED <<qFile, qEntries, qOthers>>

GetTopErrors ==
    /\ qFile = "log" /\ qOp = "loaded"
    /\ \E limit \in Limits :
          /\ qResult' = [value |-> getTopErrors(Loaded, limit)]
          /\ qArgs' = [limit |-> limit]
    /\ qOp' = "getTopErrors"
    /\ UNCHANGED <<qFile, qEntries, qArrays, qOthers>>

FilterByLevel ==
    /\ qFile = "log" /\ qOp = "loaded"
    /\ \E levels \in LevelLists :
          /\ qArrays' = NewArray(RefsOf(filterByLevel(Loaded, levels)))
          /\ qArgs' = [levels |-> levels]
    /\ qOp' = "filterByLevel"
    /\ qResult' = [array |-> 2]
    /\ UNCHANGED <<qFile, qEntries, qOthers>>

SearchLogEntries ==
    /\ qFile = "log" /\ qOp = "loaded"
    /\ \E term \in LogSearchTerms :
          /\ qArrays' = NewArray(RefsOf(ConsoleLogAnalyzer_searchEntries(Loaded, term)))
          /\ qArgs' = [term |-> term]
    /\ qOp' = "searchEntries"
    /\ qResult' = [array |-> 2]
    /\ UNCHANGED <<qFile, qEntries, qOthers>>

GroupByLevel ==
    /\ qFile = "log" /\ qOp = "loaded"
    /\ qArrays' = NewArrays(groupByLevel(Loaded))
    /\ qResult' = [map |-> MapOfArrays(groupByLevel(Loaded))]
    /\ qOp' = "groupByLevel"
    /\ qArgs' = <<>>
    /\ UNCHANGED <<qFile, qEntries, qOthers>>

GroupBySource ==
    /\ qFile = "log" /\ qOp = "loaded"
    /\ qArrays' = NewArrays(groupBySource(Loaded))
    /\ qResult' = [map |-> MapOfArrays(groupBySource(Loaded))]
    /\ qOp' = "groupBySource"
    /\ qArgs' = <<>>
    /\ UNCHANGED <<qFile, qEntries, qOthers>>

QueryStatistics ==
    /\ qFile = "log" /\ qOp = "loaded"
    /\ qResult' = [value |-> statisticsRecord(Loaded)]
    /\ qOp' = "getStatistics"
    /\ qArgs' = <<>>
    /\ UNCHANGED <<qFile, qEntries, qArrays, qOthers>>

QueryFilterByStatusCode ==
    /\ qFile = "har" /\ qOp = "loaded"
    /\ \E codes \in QueryCodes :
          /\ qArrays' = NewArray(RefsOf(filterByStatusCode(Loaded, codes)))
          /\ qArgs' = [codes |-> codes]
    /\ qOp' = "filterByStatusCode"
    /\ qResult' = [array |-> 2]
    /\ UNCHANGED <<qFile, qEntries, qOthers>>

QuerySearchEntries ==
    /\ qFile = "har" /\ qOp = "loaded"
    /\ \E term \in SearchTerms :
          /\ qArrays' = NewArray(RefsOf(HarAnalyzer_searchEntries(Loaded, term)))
          /\ qArgs' = [term |-> term]
    /\ qOp' = "searchEntries"
    /\ qResult' = [array |-> 2]
    /\ UNCHANGED <<qFile, qEntries, qOthers>>

QueryGroupByPage ==
    /\ qFile = "har" /\ qOp = "loaded"
    /\ \E pages \in PageLists :
          /\ qArrays' = NewArrays(groupByPage(Loaded, pages))
          /\ qResult' = [map |-> MapOfArrays(groupByPage(Loaded, pages))]
          /\ qArgs' = [pages |-> pages]
    /\ qOp' = "groupByPage"
    /\ UNCHANGED <<qFile, qEntries, qOthers>>

QueryTimingBreakdown ==
    /\ qFile = "har" /\ qOp = "loaded"
    /\ \E n \in 1..Len(Loaded) :
          /\ qResult' = [value |-> <<getTimingBreakdown(Loaded[n]),
                                     calculateTotalTime(Loaded[n].timings)>>]
          /\ qArgs' = [entry |-> n]
    /\ qOp' = "getTimingBreakdown"
    /\ UNCHANGED <<qFile, qEntries, qArrays, qOthers>>

QueryPerformanceMetrics ==
    /\ qFile = "har" /\ qOp = "loaded"
    /\ qResult' = [value |-> <<getPerformanceMetrics(Loaded), getMimeTypeBreakdown(Loaded)>>]
    /\ qOp' = "getPerformanceMetrics"
    /\ qArgs' = <<>>
    /\ UNCHANGED <<qFile, qEntries, qArrays, qOthers>>

\* the next render: what the last query returned is dropped
Release ==
    /\ qOp \notin {"loaded", "idle"}
    /\ qOp' = "loaded"
    /\ qArrays' = <<qArrays[1]>>
    /\ qArgs' = <<>>
    /\ qResult' = <<>>
    /\ UNCHANGED <<qFile, qEntries, qOthers>>

QNext ==
    \/ FilterByLevel
    \/ SearchLogEntries
    \/ FilterByTimeRange
    \/ FilteredLogEntries
    \/ GroupByLevel
    \/ GroupBySource
    \/ GetTopErrors
    \/ QueryStatistics
    \/ QueryFilterByStatusCode
    \/ QuerySearchEntries
    \/ QueryGroupByPage
    \/ QueryTimingBreakdown
    \/ QueryPerformanceMetrics
    \/ Release

-----------------------------------------------------------------------------
(* The hooks: useHarData (src/src/hooks/useHarData.ts) and                *)
(* useConsoleLogData (src/src/hooks/useConsoleLogData.ts)                 *)

MaxLoads == 2
\* the files given to loadHarFile
HookHarFiles == {GoodFile, OtherGoodFile, NoVersionFile, BadJsonFile, Unreadable}
\* the files given to loadLogFile: whether file.text() succeeds, the content
LogFileOf(content) == [readable |-> TRUE, content |-> content]
UnreadableLog == [readable |-> FALSE, content |-> TextContent(<<>>)]
HookLogFiles ==
    {UnreadableLog, LogFileOf(TextContent(<<BoomLine, AtLine>>)),
     LogFileOf(TextContent(<<PlainLine, LevelWordLine>>)),
     LogFileOf(JsonContent(JArr(<<WarningLog>>)))}
HookFiles == IF hook = "har" THEN HookHarFiles ELSE HookLogFiles
\* the message of the error file.text() rejects with
MsgTextFailed == "The file could not be read (the reader's own message)"

\* the initial filters of the two hooks, and the changes updateFilters makes
DefaultHarFilters ==
    [statusCodes |-> [code \in Range(StatusKeys) |-> code \notin {"0", "1xx"}],
     searchTerm |-> <<>>]
DefaultLogFilters ==
    [levels |-> [level \in LogLevel |-> TRUE], searchTerm |-> <<>>,
     timeRange |-> [start |-> Absent, end |-> Absent]]
FilterChanges ==
    IF hook = "har"
    THEN {[searchTerm |-> <<"o", "k">>]}
    ELSE {[searchTerm |-> <<"M">>]}
\* { ...prev, ...newFilters }
Merge(prev, newFilters) ==
    [k \in DOMAIN prev |-> IF k \in DOMAIN newFilters THEN newFilters[k] ELSE prev[k]]

\* how the promise of the parser settles for the load: parser.parseFile for
\* useHarData, ConsoleLogParser.parseFile for useConsoleLogData
Settled(file) ==
    IF hook = "har" THEN HarParser_parseFile(file)
    ELSE IF ~file.readable THEN Rejected(MsgTextFailed)
    ELSE Resolved(parseFile(file.content))
\* JSON.parse and the parsers build new objects at every call: what load p
\* parsed is an object of its own
Parsed(p, settled) == {[load |-> p, value |-> Val(settled.parsed)]}
\* the entries of the data held, each an object of the load that built it
EntryCount(data) ==
    IF data = Absent THEN 0
    ELSE IF hook = "har" THEN Len(getEntries({Val(data).value}))
    ELSE Len(EntriesOf(Val(data).value))
EntryObjects(data) ==
    {[load |-> Val(data).load, index |-> n] : n \in 1..EntryCount(data)}

HkInit ==
    /\ hook \in {"har", "log"}
    /\ hkLoads = <<>>
    /\ hkData = Absent
    /\ hkSelected = Absent
    /\ hkFilters = IF hook = "har" THEN DefaultHarFilters ELSE DefaultLogFilters
    /\ hkLoading = FALSE
    /\ hkError = Absent
    /\ hkParser = Absent

\* loadHarFile and loadLogFile up to the await. The file decides how the
\* promise will settle, and the load carries that outcome until it does.
StartLoad ==
    /\ Len(hkLoads) < MaxLoads
    /\ \E file \in HookFiles :
          hkLoads' = Append(hkLoads, [file |-> file, pc |-> "reading", settled |-> Settled(file)])
    /\ hkLoading' = TRUE
    /\ hkError' = Absent
    /\ UNCHANGED <<hook, hkData, hkSelected, hkFilters, hkParser, hkOthers>>

\* a variant in which the parser keeps what it parsed before validating it
FailLoad_parsedKept(p) ==
    /\ hkLoads[p].pc = "reading"
    /\ ~hkLoads[p].settled.ok
    /\ hkLoads' = [hkLoads EXCEPT ![p].pc = "failed"]
    /\ hkError' = hkLoads[p].settled.error
    /\ hkLoading' = FALSE
    /\ hkParser' = IF hook = "har" /\ hkLoads[p].file.readable
                   THEN {[load |-> p, value |-> hkLoads[p].file.json]}
                   ELSE hkParser
    /\ UNCHANGED <<hook, hkData, hkSelected, hkFilters, hkOthers>>

\* the promise of load p is rejected: the catch and the finally
FailLoad(p) ==
    /\ hkLoads[p].pc = "reading"
    /\ ~hkLoads[p].settled.ok
    /\ hkLoads' = [hkLoads EXCEPT ![p].pc = "failed"]
    /\ hkError' = hkLoads[p].settled.error
    /\ hkLoading' = FALSE
    /\ UNCHANGED <<hook, hkData, hkSelected, hkFilters, hkParser, hkOthers>>

\* the promise of load p is fulfilled: the rest of the try and the finally.
\* HarParser.parseFile has set the parser's harData just before resolving;
\* useHarData clears the selection, useConsoleLogData leaves it.
CompleteLoad(p) ==
    /\ hkLoads[p].pc = "reading"
    /\ hkLoads[p].settled.ok
    /\ hkLoads' = [hkLoads EXCEPT ![p].pc = "loaded"]
    /\ hkData' = Parsed(p, hkLoads[p].settled)
    /\ hkParser' = IF hook = "har" THEN Parsed(p, hkLoads[p].settled) ELSE hkParser
    /\ hkSelected' = IF hook = "har" THEN Absent ELSE hkSelected
    /\ hkLoading' = FALSE
    /\ UNCHANGED <<hook, hkFilters, hkError, hkOthers>>

LoadFails == \E p \in 1..Len(hkLoads) : FailLoad(p)
LoadCompletes == \E p \in 1..Len(hkLoads) : CompleteLoad(p)

\* setSelectedEntry with an entry of the list shown, which is made of the
\* entries of the data held, or with null
SelectEntry ==
    /\ \E entry \in {{e} : e \in EntryObjects(hkData)} \cup {Absent} :
          /\ entry # hkSelected
          /\ hkSelected' = entry
    /\ UNCHANGED <<hook, hkLoads, hkData, hkFilters, hkLoading, hkError, hkParser, hkOthers>>

UpdateFilters ==
    /\ \E newFilters \in FilterChanges :
          /\ Merge(hkFilters, newFilters) # hkFilters
          /\ hkFilters' = Merge(hkFilters, newFilters)
    /\ UNCHANGED <<hook, hkLoads, hkData, hkSelected, hkLoading, hkError, hkParser, hkOthers>>

\* clearData: useHarData resets the filters as well
ClearData ==
    /\ hkData # Absent \/ hkSelected # Absent \/ hkError # Absent
       \/ (hook = "har" /\ hkFilters # DefaultHarFilters)
    /\ hkData' = Absent
    /\ hkSelected' = Absent
    /\ hkError' = Absent
    /\ hkFilters' = IF hook = "har" THEN DefaultHarFilters ELSE hkFilters
    /\ UNCHANGED <<hook, hkLoads, hkLoading, hkParser, hkOthers>>

HkNext ==
    \/ StartLoad
    \/ LoadFails
    \/ LoadCompletes
    \/ SelectEntry
    \/ UpdateFilters
    \/ ClearData

-----------------------------------------------------------------------------
(* Specifications: one per subsystem, the others idle *)

\* the hooks' variables while another subsystem runs
HkIdle ==
    /\ hook = "none"
    /\ hkLoads = <<>>
    /\ hkData = Absent
    /\ hkSelected = Absent
    /\ hkFilters = <<>>
    /\ hkLoading = FALSE
    /\ hkError = Absent
    /\ hkParser = Absent

\* the single-line variables while another subsystem runs
PlIdle ==
    /\ plLine = <<>>
    /\ plOp = "idle"
    /\ plResult = Absent

\* the query variables while another subsystem runs
QIdle ==
    /\ qFile = "none"
    /\ qEntries = <<>>
    /\ qArrays = <<>>
    /\ qOp = "idle"
    /\ qArgs = <<>>
    /\ qResult = <<>>

\* the validation variables while another subsystem runs
VIdle ==
    /\ vFile = Unreadable
    /\ vOp = "idle"
    /\ vResult = <<>>

\* the analyser variables while another subsystem runs
AnIdle ==
    /\ anEntries = <<>>
    /\ anPages = <<>>
    /\ anOp = "idle"
    /\ anArgs = <<>>
    /\ anResult = <<>>

\* the upload variables before any upload: the state the hook, the App and
\* the uploader are constructed in
UpIdle ==
    /\ procs = <<>>
    /\ upError = Absent
    /\ isValidating = FALSE
    /\ showUploader = FALSE
    /\ recentFiles = {}
    /\ harData = Absent
    /\ selectedEntry = Absent
    /\ isLoading = FALSE
    /\ error = Absent
    /\ parserHarData = Absent

\* the plain-text parser's variables while another subsystem runs
PtIdle ==
    /\ ptLines = <<>>
    /\ ptI = 1
    /\ ptEntries = <<>>
    /\ currentEntry = Absent
    /\ stackTraceLines = <<>>
    /\ started = <<>>
    /\ ptPc = "idle"

\* the log-file variables while another subsystem runs
LogIdle ==
    /\ logContent = TextContent(<<>>)
    /\ logOp = "idle"
    /\ logFile = Absent
    /\ logStats = Absent

ValidateInit == VInit /\ AnIdle /\ UpIdle /\ PtIdle /\ LogIdle /\ QIdle /\ PlIdle /\ HkIdle

SpecValidate == ValidateInit /\ [][VNext]_vars

UploadInit == UpIdle /\ AnIdle /\ VIdle /\ PtIdle /\ LogIdle /\ QIdle /\ PlIdle /\ HkIdle

SpecUpload == UploadInit /\ [][UpNext]_vars

AnalyzerInit == AnInit /\ VIdle /\ UpIdle /\ PtIdle /\ LogIdle /\ QIdle /\ PlIdle /\ HkIdle

SpecAnalyzer == AnalyzerInit /\ [][AnNext]_vars

TextInit == PtInit /\ AnIdle /\ VIdle /\ UpIdle /\ LogIdle /\ QIdle /\ PlIdle /\ HkIdle

SpecText == TextInit /\ [][PtNext]_vars

\* parsePlainText is a loop that runs to its end once called
SpecTextLive == TextInit /\ [][PtNext]_vars /\ WF_vars(PtNext)

StatusFilterInit == FilterInit /\ VIdle /\ UpIdle /\ PtIdle /\ LogIdle /\ QIdle /\ PlIdle /\ HkIdle

SpecFilter == StatusFilterInit /\ [][FilterNext]_vars

QueriesInit == QInit /\ AnIdle /\ VIdle /\ UpIdle /\ PtIdle /\ LogIdle /\ PlIdle /\ HkIdle

SpecQueries == QueriesInit /\ [][QNext]_vars

LogFileInit == LogInit /\ AnIdle /\ VIdle /\ UpIdle /\ PtIdle /\ QIdle /\ PlIdle /\ HkIdle

SpecLog == LogFileInit /\ [][LogNext]_vars

LineInit == PlInit /\ AnIdle /\ VIdle /\ UpIdle /\ PtIdle /\ LogIdle /\ QIdle /\ HkIdle

SpecLine == LineInit /\ [][PlNext]_vars

HooksInit == HkInit /\ AnIdle /\ VIdle /\ UpIdle /\ PtIdle /\ LogIdle /\ QIdle /\ PlIdle

SpecHooks == HooksInit /\ [][HkNext]_vars

-----------------------------------------------------------------------------
(* Claims about HAR validation *)

\* v.k, undefined when v has no such property (also when v is null)
Field(v, k) == IF Nullish(v) THEN Undefined ELSE Prop(v, k)

\* the verdict the four checks give, taken in their order
ChecksInOrder(data) ==
    LET log == Field(data, "log")
        entries == Field(log, "entries")
    IN  IF ~Truthy(log) THEN Invalid(MsgMissingLog)
        ELSE IF ~Truthy(entries) \/ ~IsArray(entries) THEN Invalid(MsgMissingEntries)
        ELSE IF entries.a = <<>> THEN Invalid(MsgNoRequests)
        ELSE IF ~\E n \in 1..Len(entries.a) :
                    /\ Truthy(Field(entries.a[n], "request"))
                    /\ Truthy(Field(entries.a[n], "response"))
                    /\ Truthy(Field(entries.a[n], "startedDateTime"))
             THEN Invalid(MsgCorrupted)
        ELSE Valid(~Truthy(Field(log, "version")))

\* C9: for every syntactically valid JSON document the validator's verdict is
\* that of the first failing check (log absent; entries absent or not a
\* sequence; entries empty; no entry with request, response and
\* startedDateTime), and the file is accepted exactly when no check fails.
C9_VerdictOfFirstFailingCheck ==
    (vOp = "validateHarFile" /\ vFile.readable /\ vFile.json # SyntaxError) =>
        /\ vResult.isValid = ChecksInOrder(vFile.json).isValid
        /\ vResult.error = ChecksInOrder(vFile.json).error

\* C11: whenever content that is not syntactically valid JSON is submitted for
\* loading, through the uploader's validation or directly through loadHarFile,
\* the error reported is the 'invalid JSON' message, never the JSON parser's
\* own exception message.
C11_InvalidJsonReportedAsInvalidJson ==
    (vOp \in {"validateHarFile", "loadHarFile"} /\ vFile.readable /\ vFile.json = SyntaxError) =>
        vResult.error = {MsgInvalidJson}

-----------------------------------------------------------------------------
(* Claims about the HAR upload *)

\* the file passes every check of the uploader and lacks only log.version
OnlyLacksVersion(file) ==
    /\ validateHarFile(file).isValid
    /\ validateHarFile(file).warned
    /\ Truthy(Prop(Prop(file.json, "log"), "creator"))

\* C10: a HAR file whose only shortcoming is a missing log.version is not
\* rejected: its upload never ends in an error, and when it has ended the
\* file's content is loaded.
C10_MissingVersionNotRejected ==
    \A p \in 1..Len(procs) :
        (procs[p].via = "uploader" /\ OnlyLacksVersion(procs[p].file)) =>
            /\ procs[p].pc \notin {"rejected", "failed"}
            /\ (Len(procs) = 1 /\ procs[p].pc = "loaded") =>
                   (parserHarData = {procs[p].file.json} /\ error = Absent)

-----------------------------------------------------------------------------
(* Claims about HarAnalyzer *)

Buckets == {n \in 1..Len(anResult) : TRUE}
InBucket(n, e) == \E m \in 1..Len(anResult[n][2]) : anResult[n][2][m].id = e.id

\* C1: the buckets returned by groupByPage (page buckets plus _orphan) are
\* pairwise disjoint and their union is the original collection: every entry
\* of the collection is in exactly one bucket.
C1_GroupByPagePartition ==
    anOp = "groupByPage" =>
        \A k \in 1..Len(anEntries) :
            Cardinality({n \in Buckets : InBucket(n, anEntries[k])}) = 1

Phases == {"blocked", "dns", "connect", "ssl", "send", "wait", "receive"}

\* C8: getTimingBreakdown returns all seven keys and no negative value,
\* whatever the source timings held.
C8_TimingBreakdownNonNegative ==
    anOp = "getTimingBreakdown" =>
        /\ DOMAIN anResult[1] = Phases
        /\ \A p \in Phases : anResult[1][p] >= 0

-----------------------------------------------------------------------------
(* Claims about the status filters *)

\* the status falls in the class the code names
InStatusClass(status, code) ==
    IF code = 0 THEN status = 0
    ELSE \E q \in 0..9 :
            /\ 100 * q <= code /\ code < 100 * (q + 1)
            /\ 100 * q <= status /\ status < 100 * (q + 1)
\* the places of the entries whose status falls in a requested class
Requested == {n \in 1..Len(anEntries) :
                \E code \in Range(anArgs.codes) : InStatusClass(anEntries[n].status, code)}
\* the result holds entries of the input in input order, each once
InInputOrder ==
    /\ \A k \in 1..Len(anResult) :
          /\ anResult[k].id \in 1..Len(anEntries)
          /\ anResult[k] = anEntries[anResult[k].id]
    /\ \A k \in 1..(Len(anResult) - 1) : anResult[k].id < anResult[k + 1].id
StatusesOf(entries) == [k \in 1..Len(entries) |-> entries[k].status]

\* C12: filterByStatusCode returns exactly the entries, in input order, whose
\* status falls in at least one requested class (class 0: status exactly 0;
\* another class: the same hundred); with the classes 2xx and 4xx and the
\* statuses 200, 301, 404, 0 it returns the 200 and the 404 entries.
C12_FilterByStatusCode ==
    anOp = "filterByStatusCode" =>
        /\ InInputOrder
        /\ {anResult[k].id : k \in 1..Len(anResult)} = Requested
        /\ (StatusesOf(anEntries) = ScenarioStatuses /\ anArgs.codes = <<200, 400>>) =>
               anResult = <<anEntries[1], anEntries[3]>>

\* the 2xx/4xx scenario has been filtered; and a request for the class 0 alone
\* has left out an entry of status 50
C12_Witness ==
    /\ anOp = "filterByStatusCode"
    /\ StatusesOf(anEntries) = ScenarioStatuses
    /\ anArgs.codes = <<200, 400>>
    /\ StatusesOf(anResult) = <<200, 404>>

\* the six classes, to filterByStatusCode or ticked in the filter panel with
\* no search term
AllClassesRequested ==
    \/ anOp = "filterByStatusCode" /\ anArgs.codes = AllClasses
    \/ /\ anOp = "filteredEntries"
       /\ \A code \in Range(StatusKeys) : anArgs.statusCodes[code]
       /\ anArgs.searchTerm = <<>>

\* C13: with all six classes requested the status filter is no filter: the
\* result is the whole collection, unchanged.
C13_AllClassesIsNoFilter == AllClassesRequested => anResult = anEntries

-----------------------------------------------------------------------------
(* Claims about ConsoleLogParser.parsePlainText *)

Ids(entries) == [n \in 1..Len(entries) |-> entries[n].id]
Looping == ptPc = "loop" /\ ptI <= Len(ptLines)
IsBlank(line) == Trim(line) = <<>>
\* 'at foo (file.js:1:1)'
AtFooText == Trim(AtLine)

\* the trimmed non-blank lines among lines from + 1 .. to - 1
RECURSIVE TextBetween(_, _)
TextBetween(from, to) ==
    IF from + 1 >= to THEN <<>>
    ELSE (IF IsBlank(ptLines[from + 1]) THEN <<>> ELSE <<Trim(ptLines[from + 1])>>)
         \o TextBetween(from + 1, to)
\* the stackTrace property that holds these buffered lines
StackTraceOf(buffered) ==
    IF buffered = <<>> THEN Absent ELSE {Join(buffered, Newline)}
\* the line after the lines read so far that belong to the n-th entry
NextStart(entries, n) ==
    IF n < Len(entries) THEN entries[n + 1].id
    ELSE IF ptPc = "loop" /\ currentEntry # Absent THEN Val(currentEntry).id
    ELSE ptI

\* C2, first part: a step on a continuation line while an entry is pending
\* starts no entry and emits none; the trimmed line joins the buffer
ContinuationAbsorbed ==
    (Looping /\ isStackTraceLine(ptLines[ptI]) /\ currentEntry # Absent)
        => /\ started' = started
           /\ ptEntries' = ptEntries
           /\ currentEntry' = currentEntry
           /\ stackTraceLines' = Append(stackTraceLines, Trim(ptLines[ptI]))
\* C2, second part: an emitted entry's stackTrace is the buffered lines, the
\* non-blank lines between its first line and the next entry's, joined by
\* newlines in input order; the buffer of the pending entry holds them so far
StackTraceIsBuffer ==
    /\ \A n \in 1..Len(ptEntries) :
           ptEntries[n].stackTrace =
               StackTraceOf(TextBetween(ptEntries[n].id, NextStart(ptEntries, n)))
    /\ (ptPc = "loop" /\ currentEntry # Absent)
           => stackTraceLines = TextBetween(Val(currentEntry).id, ptI)
\* C2, the scenario: `Error: boom` then `    at foo (file.js:1:1)`
BoomScenario ==
    (ptPc = "done" /\ ptLines = <<BoomLine, AtLine>>)
        => /\ Len(ptEntries) = 1
           /\ ptEntries[1].message = <<"b", "o", "o", "m">>
           /\ ptEntries[1].stackTrace = {AtFooText}

\* C2: a stack-trace continuation line that arrives while an entry is
\* pending never starts an entry of its own; its trimmed text joins the
\* pending entry's buffer, and the entry is emitted with the buffered lines
\* joined by newlines in input order as its stackTrace.
C2_StackTraceContinuation ==
    /\ [][ContinuationAbsorbed]_vars
    /\ [](StackTraceIsBuffer /\ BoomScenario)

\* C2 witness: a continuation line that is also a structured line (level
\* WARN with a source position) was absorbed into the entry of `Error: boom`
C2_Witness ==
    /\ ptPc = "done"
    /\ ptLines = <<BoomLine, AtLine, IndentedLevelLine>>
    /\ Len(ptEntries) = 1
    /\ ptEntries[1].stackTrace = {AtFooText \o Newline \o Trim(IndentedLevelLine)}

\* C3: a non-blank line that is no stack-trace continuation and matches no
\* structured pattern, arriving while an entry is pending, starts no entry:
\* its text is appended to the pending entry's message after a newline.
C3_MessageContinuation ==
    [][(/\ Looping
        /\ currentEntry # Absent
        /\ ~IsBlank(ptLines[ptI])
        /\ ~isStackTraceLine(ptLines[ptI])
        /\ matchedPattern(Trim(ptLines[ptI])) = 9)
       => /\ started' = started
          /\ currentEntry' # Absent
          /\ Val(currentEntry').id = Val(currentEntry).id
          /\ Val(currentEntry').message =
                 Val(currentEntry).message \o Newline \o Trim(ptLines[ptI])]_vars

\* C4, as a state predicate: the entries emitted so far, followed by the
\* pending one, are the entries started so far, each once and in the order
\* of their first lines; after the final flush none is pending
EmittedOnceInOrder ==
    /\ Ids(ptEntries) \o (IF ptPc = "loop" /\ currentEntry # Absent
                          THEN <<Val(currentEntry).id>> ELSE <<>>) = started
    /\ \A m, n \in 1..Len(started) : m < n => started[m] < started[n]
    /\ \A n \in 1..Len(ptEntries) : ~IsBlank(ptLines[ptEntries[n].id])
\* C4, as a step: when an entry is started while another is pending, the
\* pending one is emitted in that step, with its buffered stack trace
PendingEmittedFirst ==
    (started' # started /\ currentEntry # Absent)
        => ptEntries' = Append(ptEntries,
                               [Val(currentEntry) EXCEPT
                                    !.stackTrace = StackTraceOf(stackTraceLines)])

\* C4: every entry that is started is emitted exactly once, in the order of
\* the first lines; a pending entry is emitted (with its stack trace) before
\* the next one is started, and the last pending one by the final flush.
C4_EveryEntryEmittedOnce ==
    /\ [](EmittedOnceInOrder)
    /\ [][PendingEmittedFirst]_vars

\* C4 witness: two entries, the first emitted with its stack trace when the
\* second was started, the second by the final flush
C4_Witness ==
    /\ ptPc = "done"
    /\ ptLines = <<BoomLine, AtLine, LevelWordLine>>
    /\ Ids(ptEntries) = <<1, 3>>
    /\ ptEntries[1].stackTrace = {AtFooText}

\* every non-blank line is an entry's first line or one of the lines of an
\* entry's stack trace
LinesRepresented ==
    /\ \A n \in 1..Len(ptLines) :
           (~IsBlank(ptLines[n]) /\ \A k \in 1..Len(ptEntries) : ptEntries[k].id # n)
               => \E k \in 1..Len(ptEntries) :
                      /\ ptEntries[k].id < n /\ n < NextStart(ptEntries, k)
                      /\ ptEntries[k].stackTrace =
                             StackTraceOf(TextBetween(ptEntries[k].id,
                                                      NextStart(ptEntries, k)))
\* the entries whose first line matched no structured pattern
Fallbacks == {k \in 1..Len(ptEntries) :
                 matchedPattern(Trim(ptLines[ptEntries[k].id])) = 9}

\* C5 as amended: parsePlainText terminates on every text without raising
\* an error; every non-blank line is an entry's first line or absorbed into
\* an entry's stack trace; a line that is not absorbed and matches no
\* structured pattern becomes an entry of level log whose message is the
\* line with its leading and trailing whitespace removed.
C5_TotalEveryLineRepresented ==
    /\ <>(ptPc = "done")
    /\ [](ptPc = "done" =>
            /\ LinesRepresented
            /\ \A k \in Fallbacks :
                   /\ ptEntries[k].level = Log
                   /\ ptEntries[k].message = Trim(ptLines[ptEntries[k].id]))

\* C5 as stated: the message of such an entry is the whole line
C5_FallbackMessageIsWholeLine ==
    ptPc = "done" =>
        \A k \in Fallbacks :
            /\ ptEntries[k].level = Log
            /\ ptEntries[k].message = ptLines[ptEntries[k].id]

\* C5 witness: a text with an absorbed line and two lines
\* that match no structured pattern, parsed to the end
C5_Witness ==
    /\ ptPc = "done"
    /\ ptLines = <<PlainLine, FirefoxLine, IndentedLine>>
    /\ Ids(ptEntries) = <<1, 3>>
    /\ ptEntries[1].stackTrace = {Trim(FirefoxLine)}
    /\ ptEntries[2].level = Log
    /\ ptEntries[2].message = Trim(IndentedLine)

-----------------------------------------------------------------------------
(* Claims about the console-log file and its statistics *)

\* C6: every entry of every ConsoleLogFile the parser returns has a level
\* that is one of the seven canonical values, whatever the input carried.
C6_EveryLevelCanonical ==
    logFile # Absent =>
        \A n \in 1..Len(EntriesOf(Val(logFile))) :
            EntriesOf(Val(logFile))[n].level \in LogLevel

RECURSIVE SumCounts(_, _)
SumCounts(counts, levels) ==
    IF levels = {} THEN 0
    ELSE LET level == CHOOSE l \in levels : TRUE
         IN  counts[level].n + SumCounts(counts, levels \ {level})

\* C7: for every collection the parser can produce, getStatistics returns
\* levelCounts with exactly the seven level keys, each a number, and the
\* numbers sum to entries.length.
C7_LevelCountsSumToLength ==
    logStats # Absent =>
        LET stats == Val(logStats)
        IN  /\ DOMAIN stats.levelCounts = LogLevel
            /\ \A level \in LogLevel : stats.levelCounts[level].t = "num"
            /\ SumCounts(stats.levelCounts, LogLevel) = Len(EntriesOf(Val(logFile)))
            /\ stats.totalEntries = Len(EntriesOf(Val(logFile)))

\* the file parsePlainText gives for the text of the content
AsPlainText == Built(parsePlainText(Split(logContent.text)))
\* the text does not look like JSON; it is not valid JSON; it is JSON of no
\* accepted shape; a record of it cannot be normalised
NotJsonLike ==
    LET trimmed == Trim(logContent.text)
    IN  trimmed = <<>> \/ Head(trimmed) \notin {"{", "["}
InvalidJson == ~NotJsonLike /\ logContent.json = Absent
UnrecognisedShape ==
    /\ ~NotJsonLike /\ logContent.json # Absent
    /\ LET parsed == Val(logContent.json)
       IN  /\ parsed.t = "obj"
           /\ ~({"metadata", "entries"} \subseteq DOMAIN parsed.o)
           /\ ~("logs" \in DOMAIN parsed.o /\ parsed.o["logs"].t = "arr")
CannotNormalise ==
    /\ ~NotJsonLike /\ logContent.json # Absent
    /\ LET parsed == Val(logContent.json)
           logs == IF parsed.t = "arr" THEN parsed.a
                   ELSE IF parsed.t = "obj" /\ "logs" \in DOMAIN parsed.o
                           /\ parsed.o["logs"].t = "arr"
                        THEN parsed.o["logs"].a
                        ELSE <<>>
       IN  \E n \in 1..Len(logs) : logs[n] = JNull

\* C14: parseFile always gives a file: when the trimmed text does not start
\* with "{" or "[", when it is not valid JSON, when it is JSON of no accepted
\* shape and when a record cannot be normalised, the file is that of
\* parsePlainText on the same text; the file of parseJSON is given only when
\* parseJSON returns normally.
C14_ParseFileFallsBackToText ==
    logFile # Absent =>
        /\ (NotJsonLike \/ InvalidJson \/ UnrecognisedShape \/ CannotNormalise) =>
               logFile = {AsPlainText}
        /\ ~(NotJsonLike \/ InvalidJson \/ UnrecognisedShape \/ CannotNormalise) =>
               (parseJSON(logContent).ok /\ logFile = {parseJSON(logContent).file})

\* a JSON object of no accepted shape has been parsed as one line of text
C14_Witness ==
    /\ logOp = "parsedText"
    /\ UnrecognisedShape
    /\ parseJSON(logContent) = Thrown(UnrecognizedMessage)
    /\ logFile = {AsPlainText}
    /\ Len(AsPlainText.entries) = 1

\* the document is a {metadata, entries} console log object
AlreadyShaped ==
    /\ logContent.json # Absent
    /\ LET parsed == Val(logContent.json)
       IN  /\ parsed.t = "obj"
           /\ {"metadata", "entries"} \subseteq DOMAIN parsed.o
           /\ parsed.o["metadata"].t = "obj"
           /\ parsed.o["entries"].t = "arr"

\* C15: parseJSON returns a {metadata, entries} document as it is: the same
\* metadata, the same entries with the fields the document gave them, not
\* wrapped again; and it does so before looking for a sequence or a logs
\* sequence.
C15_ShapedDocumentReturnedUnchanged ==
    (logFile # Absent /\ AlreadyShaped) =>
        /\ parseJSON(logContent) = Returned(AsParsed(Val(logContent.json)))
        /\ logFile = {AsParsed(Val(logContent.json))}
        /\ Prop(Val(logFile).value, "metadata") = Prop(Val(logContent.json), "metadata")
        /\ Prop(Val(logFile).value, "entries") = Prop(Val(logContent.json), "entries")

\* the document with metadata, entries and logs was returned as it is, its
\* entry keeping the level `warning`
C15_Witness ==
    /\ logOp = "parsedJSON"
    /\ logContent = JsonContent(ShapedWithLogs)
    /\ logFile = {AsParsed(ShapedWithLogs)}
    /\ EntriesOf(Val(logFile))[1].level = Warning

\* the file was built by parseJSONArray, from these raw records
JsonArrayPath ==
    /\ logFile # Absent
    /\ TriesJSON(logContent) /\ parseJSON(logContent).ok
    /\ Val(logFile).kind = "built"
RawLogs ==
    LET parsed == Val(logContent.json)
    IN  IF parsed.t = "arr" THEN parsed.a ELSE parsed.o["logs"].a
\* the record gives level, message and timestamp under these names
Canonical(log) == log.t = "obj" /\ {"level", "message", "timestamp"} \subseteq DOMAIN log.o
\* a level as an entry holds it: a string of the record after the
\* normalisation every level undergoes
AsLevel(v) == IF v.t = "str" THEN normalizeLogLevel(v.s) ELSE v

\* C16: for every raw record of a JSON array that gives level, message and
\* timestamp under these names, the entry built from it carries those three
\* values (the level up to its normalisation), whatever alias fields (type,
\* severity, msg, time) the record also carries.
C16_CanonicalNamesRoundTrip ==
    JsonArrayPath =>
        \A n \in 1..Len(RawLogs) :
            Canonical(RawLogs[n]) =>
                LET log == RawLogs[n]
                    entry == Val(logFile).entries[n]
                IN  /\ entry.level = AsLevel(log.o["level"])
                    /\ entry.message = Held(log.o["message"])
                    /\ entry.timestamp = Held(log.o["timestamp"])

\* the value of the first of the names that the record has, whatever the
\* value is; undefined when it has none of them
RECURSIVE FirstPresent(_, _)
FirstPresent(log, keys) ==
    IF keys = <<>> THEN Undefined
    ELSE IF Head(keys) \in DOMAIN log.o THEN log.o[Head(keys)]
    ELSE FirstPresent(log, Tail(keys))

\* C20: each logical field of an entry of the JSON-array path has the value of
\* the first alias, in the listed order, that the record has, whatever that
\* value is (0 and the empty string included); a later alias or the default
\* is used only when every earlier alias is absent, the timestamp defaulting
\* to the current time and the level to `log`.
C20_FirstPresentAliasWins ==
    JsonArrayPath =>
        \A n \in 1..Len(RawLogs) :
            LET log == RawLogs[n]
                entry == Val(logFile).entries[n]
                level == FirstPresent(log, <<"level", "type", "severity">>)
                message == FirstPresent(log, <<"message", "msg", "text">>)
                timestamp == FirstPresent(log, <<"timestamp", "time", "timeStamp">>)
            IN  /\ entry.level = IF level = Undefined THEN Log ELSE AsLevel(level)
                /\ message # Undefined => entry.message = Held(message)
                /\ entry.timestamp = IF timestamp = Undefined THEN Now ELSE Held(timestamp)

-----------------------------------------------------------------------------
(* Claims about the queries on a loaded file *)

\* the entries of the array a query returned
ResultEntries == Deref(qArrays[qResult.array])
\* a bound that is null or a time
ProperBound(bound) == bound = Absent \/ getTime(Val(bound)) # NaN
\* the entry is within the range: not before start, not after end
WithinRange(entry, start, end) ==
    LET t == getTime(entry.timestamp)
    IN  /\ start # Absent => ~LessThan(t, getTime(Val(start)))
        /\ end # Absent => ~LessThan(getTime(Val(end)), t)
\* the places, in the loaded entries, of the entries of the result
PlacesOf(array) == {array[k] : k \in 1..Len(array)}
Ascending_(array) == \A k \in 1..(Len(array) - 1) : array[k] < array[k + 1]

\* the time range was applied to the loaded entries: by filterByTimeRange
\* itself, or by the hook with every level ticked and no search term
TimeRangeApplied ==
    \/ qOp = "filterByTimeRange"
    \/ /\ qOp = "filteredEntries" /\ qFile = "log"
       /\ \A level \in LogLevel : qArgs.levels[level]
       /\ qArgs.searchTerm = <<>>
RangeOfQuery == IF qOp = "filterByTimeRange" THEN qArgs ELSE qArgs.timeRange

\* C17: filterByTimeRange never drops an entry whose timestamp cannot be
\* parsed; an entry with a parseable timestamp is kept exactly when it is not
\* before the start bound and not after the end bound (a null bound is no
\* bound); the result keeps the input order.
C17_FilterByTimeRange ==
    (TimeRangeApplied /\ ProperBound(RangeOfQuery.start) /\ ProperBound(RangeOfQuery.end)) =>
        LET result == qArrays[qResult.array]
        IN  /\ Ascending_(result)
            /\ PlacesOf(result) \subseteq 1..Len(qEntries)
            /\ \A n \in 1..Len(qEntries) :
                  IF getTime(qEntries[n].timestamp) = NaN
                  THEN n \in PlacesOf(result)
                  ELSE n \in PlacesOf(result) <=>
                           WithinRange(qEntries[n], RangeOfQuery.start, RangeOfQuery.end)

\* between T2 and T3 inclusive: the entry at T1 was dropped, those at T2 and
\* T3 and the one with no parseable timestamp were kept
C17_Witness ==
    /\ qOp = "filterByTimeRange"
    /\ qArgs = [start |-> {T2}, end |-> {T3}]
    /\ [n \in 1..Len(qEntries) |-> qEntries[n].timestamp] = <<T3, T1, NotADate>>
    /\ qArrays[qResult.array] = <<1, 3>>

\* the error entries of the loaded file whose message starts as the group does
ErrorsOfGroup(group) ==
    {n \in 1..Len(qEntries) :
        /\ qEntries[n].level = ErrorLevel
        /\ Len(group) <= Len(qEntries[n].message)
        /\ Len(group) = GroupingLength \/ Len(group) = Len(qEntries[n].message)
        /\ \A i \in 1..Len(group) : qEntries[n].message[i] = group[i]}
ErrorGroups == {Substring(qEntries[n].message, GroupingLength) :
                  n \in {m \in 1..Len(qEntries) : qEntries[m].level = ErrorLevel}}
LimitOfQuery == IF qArgs.limit = Absent THEN DefaultLimit ELSE Val(qArgs.limit)

\* C19: getTopErrors counts only error entries, groups them by the first 100
\* characters of the message and returns at most `limit` (10 by default)
\* groups, the most frequent first, each with the number of error entries in
\* it; for the error messages Timeout X, Timeout Y, Timeout X it returns
\* Timeout X with count 2 first.
C19_TopErrors ==
    qOp = "getTopErrors" =>
        LET top == qResult.value
        IN  /\ Len(top) <= LimitOfQuery
            /\ Len(top) = LimitOfQuery \/ Len(top) = Cardinality(ErrorGroups)
            /\ \A k \in 1..Len(top) :
                  /\ top[k].message \in ErrorGroups
                  /\ top[k].count = Cardinality(ErrorsOfGroup(top[k].message))
                  /\ \A j \in 1..Len(top) : top[j].message = top[k].message => j = k
            /\ \A k \in 1..(Len(top) - 1) : top[k].count >= top[k + 1].count
            /\ \A group \in ErrorGroups :
                  (\A k \in 1..Len(top) : top[k].message # group) =>
                      \A k \in 1..Len(top) : top[k].count >= Cardinality(ErrorsOfGroup(group))
            /\ ([n \in 1..Len(qEntries) |-> <<qEntries[n].level, qEntries[n].message>>]
                    = <<<<ErrorLevel, TimeoutX>>, <<ErrorLevel, TimeoutY>>,
                        <<ErrorLevel, TimeoutX>>>>
                /\ LimitOfQuery > 0) =>
                   top[1] = [message |-> TimeoutX, count |-> 2]

\* Timeout X, Timeout Y, Timeout X with the default limit: Timeout X with
\* count 2, then Timeout Y with count 1
C19_Witness ==
    /\ qOp = "getTopErrors"
    /\ qArgs.limit = Absent
    /\ [n \in 1..Len(qEntries) |-> qEntries[n].message] = <<TimeoutX, TimeoutY, TimeoutX>>
    /\ \A n \in 1..Len(qEntries) : qEntries[n].level = ErrorLevel
    /\ qResult.value = <<[message |-> TimeoutX, count |-> 2], [message |-> TimeoutY, count |-> 1]>>

\* the arrays a result refers to
ArraysOf(result) ==
    IF "array" \in DOMAIN result THEN {result.array}
    ELSE IF "map" \in DOMAIN result THEN {result.map[k][2] : k \in 1..Len(result.map)}
    ELSE {}

\* C18: a query of HarAnalyzer or ConsoleLogAnalyzer (filter, search, group,
\* statistics, timing breakdown) leaves the collection it is given and every
\* entry of it unchanged, and what it returns is newly built: every array of
\* the result did not exist before the query. So no sequence of queries
\* alters the loaded entries.
C18_QueriesLeaveEntriesUnchanged ==
    [][/\ qEntries' = qEntries
       /\ qArrays'[1] = qArrays[1]
       /\ qOp' \notin {"loaded", "idle"} =>
             /\ ArraysOf(qResult') \subseteq (Len(qArrays) + 1)..Len(qArrays')
             /\ \A a \in 1..Len(qArrays) : qArrays'[a] = qArrays[a]]_vars

\* a filter has returned an array other than the loaded one, which holds
\* fewer entries, and the loaded array still holds all of them
C18_Witness ==
    /\ qOp \in {"filterByLevel", "filterByStatusCode", "filterByTimeRange"}
    /\ qResult.array = 2
    /\ Len(qArrays[2]) < Len(qArrays[1])
    /\ qArrays[1] = [n \in 1..Len(qEntries) |-> n]
    /\ Len(qEntries) = MaxEntries

-----------------------------------------------------------------------------
(* Claims about parsePlainTextLine *)

\* The nine rules, as the claims number them: the pattern of a rule, the
\* capture groups that hold its level token and its message, whether the rule
\* has a level guard
RulePattern(rule) ==
    CASE rule = 1 -> chromePattern [] rule = 2 -> browserPattern [] rule = 3 -> isoPattern
      [] rule = 4 -> unixPattern [] rule = 5 -> sourcePattern [] rule = 6 -> simplePattern
      [] rule = 7 -> timePattern [] rule = 8 -> levelWordPattern
LevelGroup(rule) == IF rule \in {1, 3, 4, 7} THEN 2 ELSE 1
Guarded(rule) == rule \in 5..8
Accepts(rule, line) ==
    \/ rule = 9
    \/ /\ rule \in 1..8
       /\ Test(RulePattern(rule), line)
       /\ Guarded(rule) =>
             isValidLogLevel(Cap(Exec(RulePattern(rule), line), line, LevelGroup(rule)))
LowestRule(line) ==
    CHOOSE rule \in 1..9 : Accepts(rule, line) /\ \A q \in 1..(rule - 1) : ~Accepts(q, line)
\* what rule 1..8 makes of the line it accepts
RuleLevel(rule, line) ==
    normalizeLogLevel(Cap(Exec(RulePattern(rule), line), line, LevelGroup(rule)))
RuleMessage(rule, line) ==
    LET m == Exec(RulePattern(rule), line)
    IN  CASE rule \in {1, 3, 4, 7} -> Cap(m, line, 3)
          [] rule \in {2, 6, 8} -> Cap(m, line, 2)
          [] rule = 5 -> IF Group(m, line, 2) \notin {Absent, {<<>>}} THEN Cap(m, line, 2)
                         ELSE IF Group(m, line, 6) \notin {Absent, {<<>>}} THEN Cap(m, line, 6)
                         ELSE <<>>
RuleTimestamp(rule, line) ==
    LET m == Exec(RulePattern(rule), line)
    IN  CASE rule \in {1, 3} -> normalizeTimestamp(Cap(m, line, 1))
          [] rule = 4 -> EpochDate(Cap(m, line, 1))
          [] rule = 7 -> TodayAt(Cap(m, line, 1))
          [] OTHER -> Now
\* the entry of the lowest-numbered rule that accepts the line, id apart
RuleEntry(line) ==
    LET rule == LowestRule(line)
        m == Exec(RulePattern(rule), line)
    IN  IF rule = 9 THEN LogEntry(0, Now, Log, line)
        ELSE [LogEntry(0, RuleTimestamp(rule, line), RuleLevel(rule, line),
                       RuleMessage(rule, line))
                EXCEPT !.url = IF rule = 2 THEN Group(m, line, 3) ELSE Absent,
                       !.source = IF rule = 5 THEN Group(m, line, 3) ELSE Absent,
                       !.lineNumber = IF rule \in {2, 5}
                                      THEN {parseInt(Cap(m, line, 4))} ELSE Absent,
                       !.columnNumber = IF rule \in {2, 5}
                                        THEN {parseInt(Cap(m, line, 5))} ELSE Absent]
\* evaluated once per line
RuleTable ==
    [line \in CascadeLines |->
        IF Trim(line) = <<>> THEN [rule |-> 0]
        ELSE [rule |-> LowestRule(line), entry |-> RuleEntry(line)]]
Returned_ == plOp = "returned"
TheEntry == Val(plResult)

CasedTokens == LevelTokens \cup {ToUpper(t) : t \in LevelTokens}

\* C22: the level guard accepts every canonical level and every key of the
\* synonym table, so the line `<TOKEN>: <message>` with such a token gives an
\* entry whose level is the normalised level of TOKEN and whose message is
\* <message>, never a `log` entry holding the whole line.
C22_GuardAcceptsEveryKnownLevel ==
    \A token \in CasedTokens :
        Returned_ /\ plLine = TokenLine(token) =>
            /\ isValidLogLevel(token)
            /\ TheEntry.level = normalizeLogLevel(token)
            /\ TheEntry.message = Rotated

\* Claims about the Unix timestamp rule. The value of the digits is compared
\* in two parts, the millions and the rest: it exceeds the model's integers.
Millions(digits) == parseInt(SubSeq(digits, 1, Len(digits) - 6))
BelowMillion(digits) == parseInt(SubSeq(digits, Len(digits) - 5, Len(digits)))
AboveThreshold(digits) ==
    Millions(digits) > 10000 \/ (Millions(digits) = 10000 /\ BelowMillion(digits) > 0)
UnixLevels == {ToUpper(Info), <<"F", "O", "O">>}
\* the digits, 10 to 13 of them, of the line that was parsed
ParsedUnixDigits ==
    {d \in UnixDigits : Len(d) \in 10..13 /\ \E level \in UnixLevels : plLine = UnixLine(d, level)}

\* C25, as stated: the number is read as milliseconds when it exceeds 10^10
\* and as seconds otherwise, and so every number of 10 digits is read as
\* seconds and every number of 11 to 13 digits as milliseconds.
C25_DigitCountDecidesUnit ==
    \A d \in ParsedUnixDigits :
        Returned_ =>
            /\ TheEntry.timestamp.kind = "epoch"
            /\ TheEntry.timestamp.unit = (IF AboveThreshold(d) THEN "ms" ELSE "s")
            /\ Len(d) = 10 => TheEntry.timestamp.unit = "s"
            /\ Len(d) \in 11..13 => TheEntry.timestamp.unit = "ms"

\* C25, amended: the number is read as milliseconds when its value exceeds
\* 10^10 and as seconds otherwise; every number of 10 digits is read as
\* seconds, and a number of 11 to 13 digits is read as milliseconds unless its
\* value is at most 10^10 (10000000000 itself, or digits that start with
\* zeros), which is read as seconds.
C25_ThresholdDecidesUnit ==
    \A d \in ParsedUnixDigits :
        Returned_ =>
            /\ TheEntry.timestamp.kind = "epoch"
            /\ TheEntry.timestamp.unit = (IF AboveThreshold(d) THEN "ms" ELSE "s")
            /\ Len(d) = 10 => TheEntry.timestamp.unit = "s"
            /\ Len(d) \in 11..13 /\ AboveThreshold(d) => TheEntry.timestamp.unit = "ms"
            /\ Len(d) \in 11..13 /\ ~AboveThreshold(d) => TheEntry.timestamp.unit = "s"

\* the line `1705401234567 INFO up` has been parsed and its 13 digits were
\* read as milliseconds
C25_Witness ==
    /\ Returned_
    /\ plLine = UnixLine(<<"1","7","0","5","4","0","1","2","3","4","5","6","7">>, ToUpper(Info))
    /\ TheEntry.timestamp.unit = "ms"
    /\ TheEntry.level = Info

-----------------------------------------------------------------------------
(* Claims about groupByLevel and groupBySource *)

Grouped == qOp \in {"groupByLevel", "groupBySource"}
\* the buckets of the Map returned, in the Map's order: the key and the
\* places, in the loaded collection, of the entries of the bucket
LogBuckets ==
    [k \in 1..Len(qResult.map) |->
        [key |-> qResult.map[k][1], places |-> qArrays[qResult.map[k][2]]]]
BucketsOf(n) == {k \in 1..Len(LogBuckets) : n \in PlacesOf(LogBuckets[k].places)}
\* every entry is in one bucket, once; no bucket is empty; the buckets are in
\* the order in which their keys first occur, the entries of a bucket in the
\* order of the input
PartitionInOrder ==
    /\ \A n \in 1..Len(qEntries) : Cardinality(BucketsOf(n)) = 1
    /\ \A k \in 1..Len(LogBuckets) :
          /\ LogBuckets[k].places # <<>>
          /\ Ascending_(LogBuckets[k].places)
          /\ \A l \in 1..(k - 1) :
                /\ LogBuckets[l].key # LogBuckets[k].key
                /\ LogBuckets[l].places[1] < LogBuckets[k].places[1]
BucketKeyOf(n) == LogBuckets[CHOOSE k \in BucketsOf(n) : TRUE].key

\* C23, as stated: groupByLevel and groupBySource partition the collection,
\* an entry being in the bucket keyed by its level, or by its source, by
\* `Unknown` when the source is absent; no bucket is empty, the buckets are in
\* first-occurrence order of their keys and keep the input order.
C23_GroupsPartitionByKey ==
    Grouped =>
        /\ PartitionInOrder
        /\ \A n \in 1..Len(qEntries) :
              BucketKeyOf(n) =
                  IF qOp = "groupByLevel" THEN qEntries[n].level
                  ELSE IF qEntries[n].source = Absent THEN Unknown
                  ELSE Val(qEntries[n].source)

\* C23, amended: the same, the bucket of groupBySource being `Unknown` when
\* the source is absent or is the empty string.
C23_GroupsPartitionByTruthyKey ==
    Grouped =>
        /\ PartitionInOrder
        /\ \A n \in 1..Len(qEntries) :
              BucketKeyOf(n) =
                  IF qOp = "groupByLevel" THEN qEntries[n].level
                  ELSE IF qEntries[n].source \in {Absent, {<<>>}} THEN Unknown
                  ELSE Val(qEntries[n].source)

\* a collection of MaxEntries entries has been grouped into several buckets,
\* one of which holds more than one entry, and the first entry is not alone
\* in its bucket
C23_Witness ==
    /\ Grouped
    /\ Len(qEntries) = MaxEntries
    /\ Len(LogBuckets) > 1
    /\ \E k \in 1..Len(LogBuckets) : Len(LogBuckets[k].places) > 1 /\ LogBuckets[k].places[1] = 1

-----------------------------------------------------------------------------
(* Claims about the hooks useHarData and useConsoleLogData *)

\* load p is rejected in this step
Fails(p) ==
    /\ p \in 1..Len(hkLoads)
    /\ hkLoads[p].pc = "reading"
    /\ hkLoads'[p].pc = "failed"
\* a load of a file that will be rejected starts in this step
StartsRejected ==
    /\ Len(hkLoads') = Len(hkLoads) + 1
    /\ ~hkLoads'[Len(hkLoads')].settled.ok
HarFailureMessages == {MsgReaderFailed, MsgJsonParseError, MsgInvalidFormat}
\* parser.getEntries() on the parser of the hook
ParserEntries == IF hkParser = Absent THEN <<>> ELSE getEntries({Val(hkParser).value})

\* C24: a load of useHarData that fails, whether the file cannot be read, is
\* no JSON or is rejected by the validation, ends with error set to the
\* message of the failure and isLoading false, and neither its start nor its
\* end changes harData, the entries the HarParser instance holds or the
\* filters: nothing of the rejected file is retained.
C24_FailedLoadRetainsNothing ==
    [][/\ hook = "har" /\ StartsRejected
          => /\ hkData' = hkData
             /\ hkParser' = hkParser
             /\ hkFilters' = hkFilters
       /\ \A p \in 1..MaxLoads :
            hook = "har" /\ Fails(p)
            => /\ hkError' = hkLoads[p].settled.error
               /\ hkError' \in {{m} : m \in HarFailureMessages}
               /\ hkLoading' = FALSE
               /\ hkData' = hkData
               /\ hkParser' = hkParser
               /\ ParserEntries' = ParserEntries
               /\ hkFilters' = hkFilters]_vars
\* a file rejected by the validation has failed to load after another file
\* was loaded: the error is shown and the data held is still the first file's
C24_Witness ==
    /\ hook = "har"
    /\ Len(hkLoads) = 2
    /\ hkLoads[1].pc = "loaded"
    /\ hkLoads[2].pc = "failed"
    /\ hkLoads[2].file = NoVersionFile
    /\ hkError = {MsgInvalidFormat}
    /\ ~hkLoading
    /\ hkData = {[load |-> 1, value |-> hkLoads[1].file.json]}
    /\ hkParser = hkData

InFlight == {p \in 1..Len(hkLoads) : hkLoads[p].pc = "reading"}
Completed == {p \in 1..Len(hkLoads) : hkLoads[p].pc = "loaded"}

\* C27: when two uploads were started one after the other in the same hook
\* and both have succeeded, the data held is the one the upload started last
\* has parsed, in whatever order the two reads have completed.
C27_LastStartedUploadWins ==
    Len(hkLoads) = 2 /\ Completed = {1, 2} /\ hkData # Absent
    => Val(hkData).load = 2

\* C28: in both hooks isLoading is true in every state in which at least one
\* load is in flight, and false in every state in which none is.
C28_LoadingWhileInFlight == hkLoading <=> InFlight # {}

\* the entries of a parsed value, and the entry an entry object stands for
ValueEntries(value) == IF hook = "har" THEN getEntries({value}) ELSE EntriesOf(value)
EntryOf(object) == ValueEntries(Val(hkLoads[object.load].settled.parsed))[object.index]
HeldEntries == IF hkData = Absent THEN {} ELSE Range(ValueEntries(Val(hkData).value))

\* C29: in both hooks, after any sequence of uploads, selections and clears,
\* selectedEntry is null or is an entry of the file that is loaded now.
C29_SelectionIsOfLoadedFile ==
    hkSelected = Absent \/ EntryOf(Val(hkSelected)) \in HeldEntries

-----------------------------------------------------------------------------
(* Claims that compare the two status filters *)

\* the codes that stand for the classes ticked in the filter panel
ClassCodes(statusCodes) ==
    LET Ticked(code) ==
            \E k \in 1..Len(StatusKeys) : AllClasses[k] = code /\ statusCodes[StatusKeys[k]]
    IN  SelectSeq(AllClasses, Ticked)
StatusOnly == anOp = "filteredEntries" /\ Trim(anArgs.searchTerm) = <<>>

\* C26: for every collection and every non-empty set of ticked classes, the
\* status filtering of useHarData's filteredEntries keeps exactly the entries
\* that HarAnalyzer.filterByStatusCode keeps for the same classes, in the
\* same order; with no class ticked the hook passes every entry and
\* filterByStatusCode returns none.
C26_HookFiltersLikeAnalyzer ==
    StatusOnly =>
        LET codes == ClassCodes(anArgs.statusCodes)
        IN  IF codes # <<>>
            THEN anResult = filterByStatusCode(anEntries, codes)
            ELSE /\ anResult = anEntries
                 /\ filterByStatusCode(anEntries, codes) = <<>>
\* the class 1xx alone has been applied to the statuses 100, 199 and 600, and
\* has kept the first two as filterByStatusCode does
C26_Witness ==
    /\ StatusOnly
    /\ StatusesOf(anEntries) = <<100, 199, 600>>
    /\ ClassCodes(anArgs.statusCodes) = <<100>>
    /\ StatusesOf(anResult) = <<100, 199>>
    /\ anResult = filterByStatusCode(anEntries, <<100>>)

-----------------------------------------------------------------------------
(* Claims about the blank lines of a plain text *)

NotBlank(line) == Trim(line) # <<>>
\* what the claim compares of an entry: its level, message and stack trace
Told(entries) ==
    [n \in 1..Len(entries) |->
        [level |-> entries[n].level, message |-> entries[n].message,
         stackTrace |-> entries[n].stackTrace]]

\* C30: blank lines carry no information in parsePlainText: the text without
\* its blank lines parses to the same entries, in number, order, levels,
\* messages and stack traces; a stack-trace line is attached to the pending
\* entry whether or not blank lines come before it.
C30_BlankLinesCarryNothing ==
    ptPc = "done" => Told(ptEntries) = Told(parsePlainText(SelectSeq(ptLines, NotBlank)))

=============================================================================
